---- MODULE Spec2Model ----
(***************************************************************************)
(* Verification model of the tilt-rotor simulation kernel (package sim).   *)
(*                                                                         *)
(* Numbers.  The program computes in floating point; the model computes in *)
(* integers.  Time is counted in units of dt/6, so that the h/2 and h/6 of *)
(* the RK4 step are exact.  A spin speed is an integer; the thrust         *)
(* coefficient is the rational 1/KThrustInv.  Where the program divides,   *)
(* the model divides with \div, exact whenever the operands are multiples. *)
(*                                                                         *)
(* Vehicle.  Two rotors thrusting along body +Z.  Rotor 1 has one hinge    *)
(* whose axis is its own thrust axis (tilt axis +Z), rotor 2 is fixed, so  *)
(* that the thrust direction is +Z at every hinge angle and no trigono-    *)
(* metry is needed.  The rigid-body state is followed along the vertical   *)
(* channel x = [p, v] (world z position and velocity) with the attitude    *)
(* held level; the attitude error seen by the controller is an input.      *)
(***************************************************************************)
EXTENDS Integers, Sequences, FiniteSets, TLC

VARIABLES
    x,          \* DynamicsModel.x        (vertical channel [p, v])
    t,          \* DynamicsModel.t
    last_u,     \* DynamicsModel.last_u   (<<>> is None, <<u>> a ControlInput)
    omegas,     \* RotorFirstOrderActuator.omegas
    angle,      \* ServoSecondOrderActuator.angle (flat, per hinge)
    rate,       \* ServoSecondOrderActuator.rate
    cfg,        \* what the DynamicsModel was constructed with
    calls,      \* the force/torque evaluations of the last step, in order
    op,         \* the last operation: its name, arguments and outcome
    ctrl_file,  \* content of the control file polled by the closed loop
    waypoints,  \* SetpointManager.waypoints
    loop,       \* SetpointManager.loop
    start_t,    \* SetpointManager.start_t
    e_int,      \* SetpointManager.e_int      (z component)
    e_att_int,  \* SetpointManager.e_att_int  (z component)
    cycle,      \* waypoint indices returned by current() since the schedule (re)started
    polled_since, \* when the present control-file content was first polled (None: not yet)
    alloc       \* TiltAllocator under test: parameters, wrench and result

vars == <<x, t, last_u, omegas, angle, rate, cfg, calls, op,
          ctrl_file, waypoints, loop, start_t, e_int, e_att_int, cycle,
          polled_since, alloc>>

dynVars == <<x, t, last_u, omegas, angle, rate, cfg, calls>>
spVars == <<ctrl_file, waypoints, loop, start_t, e_int, e_att_int, cycle, polled_since>>

(***************************************************************************)
(* Bounds of the model.                                                    *)
(***************************************************************************)
MaxOps == 2          \* calls made on one DynamicsModel (steps and resets)
MaxLoopSteps == 6    \* iterations of the closed loop
MaxDurHalves == 3    \* dwell durations are multiples of dt/2 up to this many
MaxWps == 2          \* waypoints in a control file
\* Thrust limits range over the signed squares -r^2, r^2 with r up to MaxRoot.
MaxRoot == 2
\* Hinge layouts have up to MaxLayoutRotors rotors of up to MaxHinges hinges.
MaxLayoutRotors == 3
MaxHinges == 2
\* Vertical forces asked of the quad are (4 + reg) * r^2 with r up to MaxQuadRoot,
\* of either sign.
MaxQuadRoot == 6
\* Number of DynamicsModel.step calls of the free-body specification.
MaxFallSteps == 3
\* Unit quaternions are the integer vectors of length u, in units of 1 / u, for
\* every u up to MaxQuatUnit.
MaxQuatUnit == 5

(***************************************************************************)
(* Program constants, in model units.                                      *)
(***************************************************************************)
DT == 6                     \* demo_closedloop_geometric.DT (0.01 s = 6 time units)
ROTOR_TIME_CONSTANT == 30   \* 0.05 s = 5 dt
DEFAULT_POS == 1            \* DEFAULT_POS[2]
HOLD == 1000000             \* the 1e9 dwell of a single target
POS_KP == 10                \* POS_KP[2]
VEL_KD == 8                 \* VEL_KD[2]
POS_KI_X2 == 5              \* POS_KI[2] = 2.5, doubled
ATT_KR == 4                 \* ATT_KR[2]
ATT_KI_X10 == 3             \* ATT_KI[2] = 0.3, in tenths
INT_LIMIT == 5              \* clamp of e_int
ATT_INT_LIMIT_X10 == 5      \* clamp of e_att_int, 0.5, in tenths
ALLOC_THRUST_MAX == 30      \* thrust_max the closed loop gives its allocator

(***************************************************************************)
(* Configuration of the modelled vehicle.                                  *)
(***************************************************************************)
ServoCounts == <<1, 0>>     \* hinge axes per rotor
NRotors == Len(ServoCounts)
KThrustInv == 100           \* k_thrust = 1/100 for both rotors
Mass == 2
Gravity == 1

None == <<>>
Some(v) == <<v>>
IsNone(o) == o = <<>>
Val(o) == o[1]

Min(a, b) == IF a < b THEN a ELSE b
Max(a, b) == IF a > b THEN a ELSE b

RECURSIVE SumSeq(_)
SumSeq(s) == IF s = <<>> THEN 0 ELSE Head(s) + SumSeq(Tail(s))

\* Floor square root: the model's rendering of np.sqrt, exact on perfect squares.
ISqrt(n) == CHOOSE r \in 0..n : r * r <= n /\ n < (r + 1) * (r + 1)

(***************************************************************************)
(* lib_dynamics._default_state, on the vertical channel.                   *)
(***************************************************************************)
DefaultState == [p |-> 0, v |-> 0]

VAdd(a, b) == [p |-> a.p + b.p, v |-> a.v + b.v]
VScale(c, a) == [p |-> c * a.p, v |-> c * a.v]
VDiv(a, d) == [p |-> a.p \div d, v |-> a.v \div d]

(***************************************************************************)
(* Command values.  A Python argument may be a list or a scalar, and the   *)
(* code treats them differently, so the model tags every value.            *)
(***************************************************************************)
List(s) == [kind |-> "list", v |-> s]
Scalar(n) == [kind |-> "scalar", v |-> <<n>>]
NoneArg == [kind |-> "none", v |-> <<>>]

(***************************************************************************)
(* RotorFirstOrderActuator                                                 *)
(***************************************************************************)
\* _broadcast raises ValueError for a list of the wrong size.
BroadcastRaises(val, n) == val.kind = "list" /\ Len(val.v) # n

Broadcast(val, fill, n) ==
    IF val.kind = "list" THEN val.v
    ELSE IF val.kind = "none" THEN [i \in 1..n |-> fill]
    ELSE [i \in 1..n |-> val.v[1]]

\* Faulty variant of the clamp: the lower bound only.
RotorClampFromBelow(w, c) == Max(w, c.omega_min)

\* The clamp at the end of RotorFirstOrderActuator.step.
RotorClamp(w, c) ==
    LET lo == Max(w, c.omega_min)
    IN  IF IsNone(c.omega_max) THEN lo ELSE Min(lo, Val(c.omega_max))

\* RotorFirstOrderActuator.step: explicit Euler on the lag, then the clamp.
RotorActStep(om, omega_cmds, dt, c) ==
    LET cmds == Broadcast(omega_cmds, 0, NRotors)
    IN  [i \in 1..NRotors |->
            RotorClamp(om[i] + ((cmds[i] - om[i]) * dt) \div c.tau, c)]

\* RotorFirstOrderActuator.reset() with no argument: omegas * 0.0
RotorActReset(om) == [i \in 1..Len(om) |-> om[i] * 0]

(***************************************************************************)
(* ServoSecondOrderActuator                                                *)
(***************************************************************************)
TotalServos == SumSeq(ServoCounts)

\* self._slices for hinge counts `counts`: the 0-based offset at which the
\* slice of rotor i starts.
RECURSIVE SliceStartOf(_, _)
SliceStartOf(counts, i) ==
    IF i = 1 THEN 0 ELSE SliceStartOf(counts, i - 1) + counts[i - 1]

\* The rotor a flat index (1-based) of the layout `counts` belongs to.
RotorOfFlatIn(counts, k) ==
    CHOOSE i \in 1..Len(counts) :
        SliceStartOf(counts, i) < k /\ k <= SliceStartOf(counts, i) + counts[i]

\* _flatten_cmds for hinge counts `counts`: rotor by rotor, hinge by hinge, a
\* missing rotor or a missing angle filled with 0.0 and surplus ones dropped.
FlattenFor(counts, servo_cmds) ==
    [k \in 1..SumSeq(counts) |->
        IF servo_cmds.kind = "none" THEN 0
        ELSE LET i == RotorOfFlatIn(counts, k)
                 j == k - SliceStartOf(counts, i)
                 cmds == IF i <= Len(servo_cmds.v) THEN servo_cmds.v[i].v ELSE <<>>
             IN  IF j <= Len(cmds) THEN cmds[j] ELSE 0]

\* Faulty variant of the unpacking: every rotor reads from the start of the
\* flat array.
UnflattenFromStart(counts, flat) ==
    [i \in 1..Len(counts) |-> [j \in 1..counts[i] |-> flat[j]]]

\* _unflatten for hinge counts `counts`: one slice of the flat array per rotor.
UnflattenFor(counts, flat) ==
    [i \in 1..Len(counts) |->
        [j \in 1..counts[i] |-> flat[SliceStartOf(counts, i) + j]]]

\* First flat index (0-based offset) of rotor i: the start of its slice.
SliceStart(i) == SliceStartOf(ServoCounts, i)

\* The rotor and the hinge (1-based) a flat index belongs to.
RotorOfFlat(k) == RotorOfFlatIn(ServoCounts, k)

\* _flatten_cmds raises TypeError at len(cmds) when the entry of a rotor that
\* has hinges is not a sequence.
FlattenRaises(servo_cmds) ==
    /\ servo_cmds.kind = "list"
    /\ \E i \in 1..NRotors :
          /\ ServoCounts[i] > 0
          /\ i <= Len(servo_cmds.v)
          /\ servo_cmds.v[i].kind # "list"

FlattenCmds(servo_cmds) == FlattenFor(ServoCounts, servo_cmds)

Unflatten(flat) == UnflattenFor(ServoCounts, flat)

\* Faulty variant of the angle clamp: the upper bound only.
ServoClampFromAbove(a, c) == IF IsNone(c.angle_max) THEN a ELSE Min(a, Val(c.angle_max))

\* The clamp at the end of ServoSecondOrderActuator.step.
ServoClamp(a, c) ==
    LET lo == IF IsNone(c.angle_min) THEN a ELSE Max(a, Val(c.angle_min))
    IN  IF IsNone(c.angle_max) THEN lo ELSE Min(lo, Val(c.angle_max))

\* ServoSecondOrderActuator.step: semi-implicit Euler (rate first, then angle).
ServoRateStep(an, ra, servo_cmds, dt, c) ==
    LET cmd_flat == FlattenCmds(servo_cmds)
    IN  [k \in 1..TotalServos |->
            ra[k] + (c.omega_n_sq * (cmd_flat[k] - an[k])
                       - c.two_zeta_omega_n * ra[k]) * dt]

ServoAngleStep(an, ra, servo_cmds, dt, c) ==
    LET r1 == ServoRateStep(an, ra, servo_cmds, dt, c)
    IN  [k \in 1..TotalServos |-> ServoClamp(an[k] + r1[k] * dt, c)]

\* ServoSecondOrderActuator.reset() with no arguments.
ServoAngleReset(an) == [k \in 1..Len(an) |-> an[k] * 0]
ServoRateReset(ra) == [k \in 1..Len(ra) |-> ra[k] * 0]

(***************************************************************************)
(* ControlInput (plant.py): omegas and servo_angles as handed over.        *)
(***************************************************************************)
ControlInput(om, sv) == [omegas |-> om, servo_angles |-> sv]

\* RotorModel.thrust_and_torque_body: thrust magnitude k_thrust * omega^2
\* (no tilt falloff); the hinge turns the rotor about its own thrust axis, so
\* the force stays along body +Z.
RotorThrust(omega) == (omega * omega) \div KThrustInv

\* plant.force_torque reads u.omegas[idx] / u.servo_angles[idx] when idx < len(..),
\* which raises TypeError for a scalar; zip(axes, servo_angles) in
\* rotation_body_from_servos raises for an entry that is no sequence.
PlantRaises(u) ==
    \/ u.omegas.kind # "list"
    \/ u.servo_angles.kind # "list"
    \/ \E i \in 1..NRotors :
          i <= Len(u.servo_angles.v) /\ u.servo_angles.v[i].kind # "list"

OmegaOf(u, i) == IF i <= Len(u.omegas.v) THEN u.omegas.v[i] ELSE 0

\* Faulty variant of the ground contact: the spring-damper force is applied
\* whatever its sign.
GroundForceUnclamped(xx, c) ==
    IF ~IsNone(c.ground_height) /\ c.ground_k > 0
    THEN LET penetration == Val(c.ground_height) - xx.p
         IN  IF penetration > 0
             THEN c.ground_k * penetration - c.ground_d * Min(xx.v, 0)
             ELSE 0
    ELSE 0

\* Ground contact of MultiTiltRotorPlant.force_torque: vertical spring-damper.
GroundForce(xx, c) ==
    IF ~IsNone(c.ground_height) /\ c.ground_k > 0
    THEN LET penetration == Val(c.ground_height) - xx.p
         IN  IF penetration > 0
             THEN LET Fz == c.ground_k * penetration - c.ground_d * Min(xx.v, 0)
                  IN  IF Fz > 0 THEN Fz ELSE 0
             ELSE 0
    ELSE 0

\* MultiTiltRotorPlant.force_torque: total body force along +Z (attitude level,
\* so body and world z coincide).
PlantForce(xx, u, c) ==
    SumSeq([i \in 1..NRotors |-> RotorThrust(OmegaOf(u, i))]) + GroundForce(xx, c)

\* The per-rotor poses force_torque returns for telemetry: world position of the
\* rotor (all rotors are mounted at body height) and its body thrust.
RotorWorld(xx, u) ==
    [i \in 1..NRotors |-> [p_world |-> xx.p, F_body |-> RotorThrust(OmegaOf(u, i))]]

\* RigidBody6DOF.dynamics on the vertical channel:
\*   p_dot = v,  v_dot = -g + (1/m) * F
RigidBodyDynamics(xx, F) == [p |-> xx.v, v |-> (0 - Gravity) + F \div Mass]

\* DynamicsModel._derivative
Derivative(tt, xx, u, c) == RigidBodyDynamics(xx, PlantForce(xx, u, c))

(***************************************************************************)
(* DynamicsModel.step: classical RK4.  Stages gives the four (time, state) *)
(* pairs at which the force/torque callback is evaluated, in order.        *)
(***************************************************************************)
Stages(tt, xx, u, h, c) ==
    LET k1 == Derivative(tt, xx, u, c)
        x2 == VAdd(xx, VDiv(VScale(h, k1), 2))
        k2 == Derivative(tt + h \div 2, x2, u, c)
        x3 == VAdd(xx, VDiv(VScale(h, k2), 2))
        k3 == Derivative(tt + h \div 2, x3, u, c)
        x4 == VAdd(xx, VScale(h, k3))
    IN  << [t |-> tt,            x |-> xx, u |-> u],
           [t |-> tt + h \div 2, x |-> x2, u |-> u],
           [t |-> tt + h \div 2, x |-> x3, u |-> u],
           [t |-> tt + h,        x |-> x4, u |-> u] >>

\* Faulty variant of the update: the four derivatives weighted equally.
RK4EqualWeights(tt, xx, u, h, c) ==
    LET st == Stages(tt, xx, u, h, c)
        k == [n \in 1..4 |-> Derivative(st[n].t, st[n].x, st[n].u, c)]
        sum == VAdd(VAdd(k[1], k[2]), VAdd(k[3], k[4]))
    IN  VAdd(xx, VDiv(VScale(h, sum), 4))

RK4(tt, xx, u, h, c) ==
    LET st == Stages(tt, xx, u, h, c)
        k == [n \in 1..4 |-> Derivative(st[n].t, st[n].x, st[n].u, c)]
        sum == VAdd(VAdd(k[1], VScale(2, k[2])), VAdd(VScale(2, k[3]), k[4]))
    IN  VAdd(xx, VDiv(VScale(h, sum), 6))

(***************************************************************************)
(* DynamicsModel.step_with_commands, as a function of the object's state.  *)
(* It returns the state it leaves behind and whether it raised; the three  *)
(* stages run in the order of the code, each on what the previous left.    *)
(***************************************************************************)
DynState == [x |-> x, t |-> t, last_u |-> last_u, omegas |-> omegas,
             angle |-> angle, rate |-> rate, calls |-> calls]

\* Faulty variant of stage 1: without an actuator model the plant is handed
\* zero spin speeds instead of the commands.
AfterRotorStageUnpowered(s, omega_cmds, h, c) ==
    IF ~c.act THEN [s EXCEPT !.raised = FALSE,
                             !.u_omegas = List([i \in 1..NRotors |-> 0])]
    ELSE IF BroadcastRaises(omega_cmds, NRotors) THEN [s EXCEPT !.raised = TRUE]
    ELSE LET om == RotorActStep(s.omegas, omega_cmds, h, c)
         IN  [s EXCEPT !.omegas = om, !.u_omegas = List(om)]

\* Stage 1: self.actuator.step(omega_cmds, h), or the commands as given.
AfterRotorStage(s, omega_cmds, h, c) ==
    IF ~c.act THEN [s EXCEPT !.raised = FALSE, !.u_omegas = omega_cmds]
    ELSE IF BroadcastRaises(omega_cmds, NRotors) THEN [s EXCEPT !.raised = TRUE]
    ELSE LET om == RotorActStep(s.omegas, omega_cmds, h, c)
         IN  [s EXCEPT !.omegas = om, !.u_omegas = List(om)]

\* Stage 2: self.servo_actuator.step(servo_angles, h), or the angles as given.
AfterServoStage(s, servo_angles, h, c) ==
    IF s.raised THEN s
    ELSE IF ~c.servo
    THEN [s EXCEPT !.u_servo =
            IF servo_angles.kind = "none"
            THEN List([i \in 1..NRotors |-> List(<<>>)])
            ELSE servo_angles]
    ELSE IF FlattenRaises(servo_angles) THEN [s EXCEPT !.raised = TRUE]
    ELSE LET an == ServoAngleStep(s.angle, s.rate, servo_angles, h, c)
             ra == ServoRateStep(s.angle, s.rate, servo_angles, h, c)
             un == Unflatten(an)
         IN  [s EXCEPT !.angle = an, !.rate = ra,
                       !.u_servo = List([i \in 1..NRotors |-> List(un[i])])]

\* Stage 3: self.step(u, dt=h).
AfterStep(s, h, c) ==
    IF s.raised THEN s
    ELSE LET u == ControlInput(s.u_omegas, s.u_servo)
         IN  IF PlantRaises(u) THEN [s EXCEPT !.raised = TRUE, !.calls = <<>>]
             ELSE [s EXCEPT !.x = RK4(s.t, s.x, u, h, c),
                            !.t = s.t + h,
                            !.last_u = Some(u),
                            !.calls = Stages(s.t, s.x, u, h, c)]

\* Faulty variant of the step: the actuators are advanced, but the rigid body
\* is integrated with the commands as given instead of the actuators' outputs.
StepWithRawCommands(s, omega_cmds, servo_angles, h, c) ==
    LET s0 == [x |-> s.x, t |-> s.t, last_u |-> s.last_u, omegas |-> s.omegas,
               angle |-> s.angle, rate |-> s.rate, calls |-> s.calls,
               raised |-> FALSE, u_omegas |-> NoneArg, u_servo |-> NoneArg]
        s2 == AfterServoStage(AfterRotorStage(s0, omega_cmds, h, c), servo_angles, h, c)
    IN  AfterStep(IF s2.raised THEN s2 ELSE [s2 EXCEPT !.u_omegas = omega_cmds], h, c)

StepWithCommands(s, omega_cmds, servo_angles, h, c) ==
    LET s0 == [x |-> s.x, t |-> s.t, last_u |-> s.last_u, omegas |-> s.omegas,
               angle |-> s.angle, rate |-> s.rate, calls |-> s.calls,
               raised |-> FALSE, u_omegas |-> NoneArg, u_servo |-> NoneArg]
    IN  AfterStep(AfterServoStage(AfterRotorStage(s0, omega_cmds, h, c),
                                  servo_angles, h, c), h, c)

\* Faulty variant of reset: the rigid body and the time only.
ResetBodyOnly(s, state, t0, c) ==
    [s EXCEPT !.x = IF IsNone(state) THEN DefaultState ELSE Val(state),
              !.t = t0,
              !.last_u = None,
              !.calls = <<>>]

\* DynamicsModel.reset(state, t)
Reset(s, state, t0, c) ==
    [s EXCEPT !.x = IF IsNone(state) THEN DefaultState ELSE Val(state),
              !.t = t0,
              !.last_u = None,
              !.calls = <<>>,
              !.omegas = IF c.act THEN RotorActReset(s.omegas) ELSE s.omegas,
              !.angle = IF c.servo THEN ServoAngleReset(s.angle) ELSE s.angle,
              !.rate = IF c.servo THEN ServoRateReset(s.rate) ELSE s.rate]

(***************************************************************************)
(* TiltAllocator (lib_control.py) for the modelled vehicle.  Vectors are   *)
(* 3-tuples, the wrench a 6-tuple <<Fx, Fy, Fz, Tx, Ty, Tz>>.              *)
(***************************************************************************)
RotorPos == << <<1, 0, 0>>, <<0 - 1, 0, 0>> >>   \* position_baselink
SpinDir == <<1, 0 - 1>>                          \* spin_dir
KDragOverKThrust == 1                            \* k_drag / k_thrust

Cross(a, b) ==
    << a[2] * b[3] - a[3] * b[2], a[3] * b[1] - a[1] * b[3], a[1] * b[2] - a[2] * b[1] >>

Sgn(n) == IF n > 0 THEN 1 ELSE IF n < 0 THEN 0 - 1 ELSE 0

\* allocate, lines 98-105: the preferred thrust direction is the normalised
\* force part of the wrench, or body +Z for a (near-)zero force.
DirPref(wrench) ==
    LET F == <<wrench[1], wrench[2], wrench[3]>>
    IN  IF F = <<0, 0, 0>> THEN <<0, 0, 1>>
        ELSE IF F[1] = 0 /\ F[2] = 0 THEN <<0, 0, Sgn(F[3])>>
        ELSE F

\* _aim_servo_single_axis: [] for a fixed rotor.  A hinge about the rotor's own
\* thrust axis leaves no projection of the rotor axis on the hinge plane, so
\* _tilt_angle_to_align returns 0.0, whatever the preferred direction; np.clip
\* keeps 0.  Only the first hinge is aimed.
AimServoFor(count, dir_pref) == IF count = 0 THEN <<>> ELSE <<0>>

AimServoSingleAxis(i, dir_pref) == AimServoFor(ServoCounts[i], dir_pref)

\* _thrust_direction_and_tau_col: the thrust direction stays body +Z (hinge
\* about the thrust axis); tau_col = position x dir + yaw_gain * dir.
ThrustDir(i, servo) == <<0, 0, 1>>

TauCol(i, servo, a) ==
    LET d == ThrustDir(i, servo)
        arm == Cross(RotorPos[i], d)
        yaw_gain == KDragOverKThrust * SpinDir[i] * a.yaw_drag_scale
    IN  [r \in 1..3 |-> arm[r] + yaw_gain * d[r]]

\* The 6 x n allocation matrix, B[r][i].
AllocMatrix(servo_cmd, a) ==
    [r \in 1..6 |-> [i \in 1..NRotors |->
        IF r <= 3 THEN ThrustDir(i, servo_cmd[i])[r]
        ELSE TauCol(i, servo_cmd[i], a)[r - 3]]]

\* (B^T B + reg I) f = B^T w for the two rotors, by Cramer's rule; reg is the
\* rational reg_num / reg_den and the system is scaled by reg_den.
SolveThrusts(B, wrench, a) ==
    LET BtB(i, j) == a.reg_den * SumSeq([r \in 1..6 |-> B[r][i] * B[r][j]])
                       + (IF i = j THEN a.reg_num ELSE 0)
        btw(i) == a.reg_den * SumSeq([r \in 1..6 |-> B[r][i] * wrench[r]])
        det == BtB(1, 1) * BtB(2, 2) - BtB(1, 2) * BtB(2, 1)
    IN  << (btw(1) * BtB(2, 2) - BtB(1, 2) * btw(2)) \div det,
           (BtB(1, 1) * btw(2) - btw(1) * BtB(2, 1)) \div det >>

\* Faulty variant of the clip: the lower limit only.
ClipThrustFromBelow(f, a) == Max(f, a.thrust_min)

\* np.clip(f, thrust_min, thrust_max)
ClipThrust(f, a) == Min(Max(f, a.thrust_min), a.thrust_max)

\* omega = sqrt(max(thrust, 0) / k), k = k_thrust = 1 / KThrustInv
ThrustToOmega(thrust) == ISqrt(Max(thrust, 0) * KThrustInv)

\* TiltAllocator.allocate for rotors with hinge counts `counts` (every hinge
\* about its rotor's thrust axis, as in the modelled vehicle).
AllocateFor(counts, wrench, a) ==
    LET dir_pref == DirPref(wrench)
        servo_cmd == [i \in 1..NRotors |-> AimServoFor(counts[i], dir_pref)]
        f == SolveThrusts(AllocMatrix(servo_cmd, a), wrench, a)
    IN  [omegas |-> [i \in 1..NRotors |-> ThrustToOmega(ClipThrust(f[i], a))],
         servo_angles |-> servo_cmd]

\* TiltAllocator.allocate
Allocate(wrench, a) == AllocateFor(ServoCounts, wrench, a)

(***************************************************************************)
(* SetpointManager (demo_closedloop_geometric.py).  A control file is None *)
(* (absent or unreadable) or a record: waypoints is the list under the     *)
(* "waypoints" key (<<>> when the key is absent or the list empty), loop   *)
(* the "loop_waypoints" flag, target the position of a single target       *)
(* (None when no target_* key is present).                                 *)
(***************************************************************************)
Waypoint(pos, dur) == [pos |-> pos, duration |-> dur]
Ctrl(wps, lp, tgt) == [waypoints |-> wps, loop |-> lp, target |-> tgt]

SpState == [waypoints |-> waypoints, loop |-> loop, start_t |-> start_t,
            e_int |-> e_int, e_att_int |-> e_att_int]

\* SetpointManager.__init__
SpInit == [waypoints |-> <<Waypoint(DEFAULT_POS, HOLD)>>, loop |-> FALSE,
           start_t |-> 0, e_int |-> 0, e_att_int |-> 0]

\* Did load_from_ctrl install a schedule (and so restart it)?
Loads(ctrl) ==
    /\ ~IsNone(ctrl)
    /\ Val(ctrl).waypoints # <<>> \/ ~IsNone(Val(ctrl).target)

\* SetpointManager.load_from_ctrl
LoadFromCtrl(sp, ctrl, t_now) ==
    IF IsNone(ctrl) THEN sp
    ELSE IF Val(ctrl).waypoints # <<>>
    THEN [sp EXCEPT !.waypoints = Val(ctrl).waypoints, !.loop = Val(ctrl).loop,
                    !.start_t = t_now, !.e_int = 0, !.e_att_int = 0]
    ELSE IF ~IsNone(Val(ctrl).target)
    THEN [sp EXCEPT !.waypoints = <<Waypoint(Val(Val(ctrl).target), HOLD)>>,
                    !.loop = FALSE, !.start_t = t_now, !.e_int = 0, !.e_att_int = 0]
    ELSE sp

\* Faulty variant of the scan: a waypoint stays active at the instant its dwell
\* ends.
RECURSIVE ScanWaypointsInclusive(_, _, _, _)
ScanWaypointsInclusive(wps, elapsed, idx, acc) ==
    IF idx > Len(wps) THEN 0
    ELSE IF elapsed <= acc + wps[idx].duration THEN idx
    ELSE ScanWaypointsInclusive(wps, elapsed, idx + 1, acc + wps[idx].duration)

\* The while loop of SetpointManager.current: the index it returns from, 0 when
\* it runs off the end of the list.
RECURSIVE ScanWaypoints(_, _, _, _)
ScanWaypoints(wps, elapsed, idx, acc) ==
    IF idx > Len(wps) THEN 0
    ELSE IF elapsed < acc + wps[idx].duration THEN idx
    ELSE ScanWaypoints(wps, elapsed, idx + 1, acc + wps[idx].duration)

\* Faulty variant of current: the end of a looping list returns the first
\* waypoint but leaves start_t alone.
CurrentKeepingStart(sp, t_now) ==
    LET hit == ScanWaypoints(sp.waypoints, t_now - sp.start_t, 1, 0)
    IN  IF hit # 0
        THEN [idx |-> hit, start_t |-> sp.start_t, ended |-> FALSE, restarted |-> FALSE]
        ELSE IF sp.loop /\ sp.waypoints # <<>>
        THEN [idx |-> 1, start_t |-> sp.start_t, ended |-> TRUE, restarted |-> TRUE]
        ELSE [idx |-> Len(sp.waypoints), start_t |-> sp.start_t, ended |-> TRUE,
              restarted |-> FALSE]

\* SetpointManager.current: the index of the waypoint returned and the start_t
\* it leaves (the end of a looping list restarts the schedule).
Current(sp, t_now) ==
    LET hit == ScanWaypoints(sp.waypoints, t_now - sp.start_t, 1, 0)
    IN  IF hit # 0
        THEN [idx |-> hit, start_t |-> sp.start_t, ended |-> FALSE, restarted |-> FALSE]
        ELSE IF sp.loop /\ sp.waypoints # <<>>
        THEN [idx |-> 1, start_t |-> t_now, ended |-> TRUE, restarted |-> TRUE]
        ELSE [idx |-> Len(sp.waypoints), start_t |-> sp.start_t, ended |-> TRUE,
              restarted |-> FALSE]

(***************************************************************************)
(* The closed loop (run_server.handler), one iteration.                    *)
(***************************************************************************)
\* Faulty variant of clamp_vec: the lower limit only.
ClampVecFromBelow(v, limit) == Max(v, 0 - limit)

\* clamp_vec
ClampVec(v, limit) == Min(Max(v, 0 - limit), limit)

\* control_outer, z component: PID on position with gravity feed-forward.
ControlOuter(p, v, target_pos, ei) ==
    LET e_p == target_pos - p
        e_v == 0 - v
    IN  [F_world |-> POS_KP * e_p + VEL_KD * e_v + (POS_KI_X2 * ei) \div 2 + Mass * Gravity,
         e_p |-> e_p]

\* attitude_control, z component, body rate zero: tau = -ATT_KR * e_R
AttitudeControl(e_R) == 0 - ATT_KR * e_R

\* The allocator the closed loop constructs (thrust_min 0, thrust_max 30,
\* yaw_drag_scale 2; reg 1e-6 is rendered at the model's resolution).
LoopAlloc == [thrust_min |-> 0, thrust_max |-> ALLOC_THRUST_MAX,
              reg_num |-> 1, reg_den |-> 100, yaw_drag_scale |-> 2]

\* Lines 205-232: from the polled control file and the current state to the
\* setpoint manager's new state and the allocated command.
LoopControl(sp, ctrl, xx, tt, e_R, dt) ==
    LET sp1 == LoadFromCtrl(sp, ctrl, tt)
        cur == Current(sp1, tt)
        target_pos == sp1.waypoints[cur.idx].pos
        outer == ControlOuter(xx.p, xx.v, target_pos, sp1.e_int)
        ei == ClampVec(sp1.e_int + outer.e_p * dt, INT_LIMIT)
        eai == ClampVec(sp1.e_att_int + e_R * dt, ATT_INT_LIMIT_X10)
        tau == AttitudeControl(e_R) - (ATT_KI_X10 * eai) \div 10
        wrench == <<0, 0, outer.F_world, 0, 0, tau>>
    IN  [sp |-> [sp1 EXCEPT !.start_t = cur.start_t, !.e_int = ei, !.e_att_int = eai],
         cur |-> cur, e_p |-> outer.e_p, wrench |-> wrench,
         u |-> Allocate(wrench, LoopAlloc)]

(***************************************************************************)
(* Specification of the dynamics object: a DynamicsModel is constructed    *)
(* with one of DynCfgs and then driven through step_with_commands and      *)
(* reset with arguments of every shape (well-formed or not).               *)
(***************************************************************************)
BaseCfg ==
    [act |-> TRUE, tau |-> ROTOR_TIME_CONSTANT, omega_min |-> 0, omega_max |-> None,
     servo |-> TRUE, omega_n_sq |-> 1, two_zeta_omega_n |-> 1,
     angle_min |-> None, angle_max |-> None,
     ground_height |-> None, ground_k |-> 0, ground_d |-> 0, dt |-> DT]

\* Saturating actuators with a time constant shorter than the step (the lag
\* overshoots the command), over a ground plane.
BoundedCfg ==
    [BaseCfg EXCEPT !.tau = DT \div 2, !.omega_min = 10, !.omega_max = Some(30),
                    !.angle_min = Some(-1), !.angle_max = Some(1),
                    !.ground_height = Some(0), !.ground_k = 3, !.ground_d = 1]

DynCfgs ==
    {[b EXCEPT !.act = a, !.servo = s] :
        b \in {BaseCfg, BoundedCfg}, a \in BOOLEAN, s \in BOOLEAN}

OmegaCmdArgs ==
    {List(<<0, 0>>), List(<<100, 100>>), List(<<100, 0>>),
     List(<<100>>), Scalar(100)}

ServoCmdArgs ==
    {NoneArg,
     List(<<List(<<1>>), List(<<>>)>>),
     List(<<List(<<0 - 2>>)>>),
     List(<<Scalar(1), List(<<>>)>>)}

DtArgs == {None, Some(2 * DT)}

ResetStates == {None, Some([p |-> 3, v |-> 0 - 1])}

\* What a call found: the state of the object before it ran.
Snap(s) == [x |-> s.x, t |-> s.t, omegas |-> s.omegas, angle |-> s.angle, rate |-> s.rate]

NoOp == [name |-> "init", n |-> 0, raised |-> FALSE, h |-> 0,
         omega_cmds |-> NoneArg, servo_angles |-> NoneArg, state |-> None,
         pre |-> [x |-> DefaultState, t |-> 0, omegas |-> <<>>, angle |-> <<>>,
                  rate |-> <<>>]]

IdleSetpoints ==
    /\ ctrl_file = None
    /\ waypoints = <<>>
    /\ loop = FALSE
    /\ start_t = 0
    /\ e_int = 0
    /\ e_att_int = 0
    /\ cycle = <<>>
    /\ polled_since = None

IdleAlloc == alloc = [thrust_min |-> 0, thrust_max |-> 0, wrench |-> <<0, 0>>,
                      omegas |-> <<>>, servo_angles |-> <<>>]

\* DynamicsModel.__init__ (ends in self.reset()) with the actuators' __init__.
Constructed(c) ==
    /\ cfg = c
    /\ x = DefaultState
    /\ t = 0
    /\ last_u = None
    /\ calls = <<>>
    /\ omegas = IF c.act THEN [i \in 1..NRotors |-> 0] ELSE <<>>
    /\ angle = IF c.servo THEN [k \in 1..TotalServos |-> 0] ELSE <<>>
    /\ rate = IF c.servo THEN [k \in 1..TotalServos |-> 0] ELSE <<>>

InitDyn ==
    /\ \E c \in DynCfgs : Constructed(c)
    /\ op = NoOp
    /\ IdleSetpoints
    /\ IdleAlloc

Install(s) ==
    /\ x' = s.x
    /\ t' = s.t
    /\ last_u' = s.last_u
    /\ omegas' = s.omegas
    /\ angle' = s.angle
    /\ rate' = s.rate
    /\ calls' = s.calls

CallStepWithCommands(omega_cmds, servo_angles, dtArg) ==
    /\ op.n < MaxOps
    /\ LET h == IF IsNone(dtArg) THEN cfg.dt ELSE Val(dtArg)
       IN  \E s \in {StepWithCommands(DynState, omega_cmds, servo_angles, h, cfg)} :
           /\ Install(s)
           /\ op' = [name |-> "step_with_commands", n |-> op.n + 1,
                     raised |-> s.raised, h |-> h, omega_cmds |-> omega_cmds,
                     servo_angles |-> servo_angles, state |-> None,
                     pre |-> Snap(DynState)]
    /\ UNCHANGED <<cfg, spVars, alloc>>

CallReset(state, t0) ==
    /\ op.n < MaxOps
    /\ Install(Reset(DynState, state, t0, cfg))
    /\ op' = [name |-> "reset", n |-> op.n + 1, raised |-> FALSE, h |-> t0,
              omega_cmds |-> NoneArg, servo_angles |-> NoneArg, state |-> state,
              pre |-> Snap(DynState)]
    /\ UNCHANGED <<cfg, spVars, alloc>>

NextDyn ==
    \/ \E oc \in OmegaCmdArgs, sc \in ServoCmdArgs, d \in DtArgs :
          CallStepWithCommands(oc, sc, d)
    \/ \E st \in ResetStates, t0 \in {0, DT} : CallReset(st, t0)

SpecDyn == InitDyn /\ [][NextDyn]_vars

(***************************************************************************)
(* Specifications of the closed loop.  run_server builds the dynamics with *)
(* both actuator models over a ground plane and then iterates the handler; *)
(* the control file is changed from outside.                               *)
(***************************************************************************)
LoopCfg == [BaseCfg EXCEPT !.ground_height = Some(0), !.ground_k = 3, !.ground_d = 1]

Durations == {k * (DT \div 2) : k \in 0..MaxDurHalves}
Positions == {1, 2}

WaypointLists ==
    UNION {[1..n -> {Waypoint(pz, d) : pz \in Positions, d \in Durations}] : n \in 1..MaxWps}

SpSnap(sp) == [waypoints |-> sp.waypoints, loop |-> sp.loop, start_t |-> sp.start_t,
               e_int |-> sp.e_int, e_att_int |-> sp.e_att_int]

NoLoopOp ==
    [name |-> "init", n |-> 0, raised |-> FALSE, t_now |-> 0, e_R |-> 0, e_p |-> 0,
     ctrl |-> None, polled_since |-> None, idx |-> 0, loaded |-> FALSE, ended |-> FALSE,
     restarted |-> FALSE, restarts |-> 0, u |-> [omegas |-> <<>>, servo_angles |-> <<>>],
     pre |-> [x |-> DefaultState, t |-> 0, omegas |-> <<>>, angle |-> <<>>, rate |-> <<>>],
     pre_sp |-> SpSnap(SpInit), pre_cycle |-> <<>>, pre_ended |-> FALSE]

InitLoop ==
    /\ Constructed(LoopCfg)
    /\ waypoints = SpInit.waypoints
    /\ loop = SpInit.loop
    /\ start_t = SpInit.start_t
    /\ e_int = SpInit.e_int
    /\ e_att_int = SpInit.e_att_int
    /\ cycle = <<>>
    /\ polled_since = None
    /\ op = NoLoopOp
    /\ IdleAlloc

\* One iteration of the handler's while loop, e_R being the attitude error the
\* attitude controller finds.
Handler(e_R) ==
    /\ op.n < MaxLoopSteps
    /\ \E lc \in {LoopControl(SpState, ctrl_file, x, t, e_R, DT)} :
       \E s \in {StepWithCommands(DynState, List(lc.u.omegas),
                    List([i \in 1..NRotors |-> List(lc.u.servo_angles[i])]), DT, cfg)} :
       LET fresh == Loads(ctrl_file) \/ lc.cur.restarted
       IN  /\ Install(s)
           /\ waypoints' = lc.sp.waypoints
           /\ loop' = lc.sp.loop
           /\ start_t' = lc.sp.start_t
           /\ e_int' = lc.sp.e_int
           /\ e_att_int' = lc.sp.e_att_int
           /\ cycle' = IF fresh \/ cycle = <<>> THEN <<lc.cur.idx>>
                       ELSE IF cycle[Len(cycle)] = lc.cur.idx THEN cycle
                       ELSE Append(cycle, lc.cur.idx)
           /\ polled_since' = IF IsNone(ctrl_file) \/ ~IsNone(polled_since)
                              THEN polled_since ELSE Some(t)
           /\ op' = [name |-> "handler", n |-> op.n + 1, raised |-> s.raised,
                     t_now |-> t, e_R |-> e_R, e_p |-> lc.e_p, ctrl |-> ctrl_file,
                     polled_since |-> polled_since,
                     idx |-> lc.cur.idx, loaded |-> Loads(ctrl_file),
                     ended |-> lc.cur.ended, restarted |-> lc.cur.restarted,
                     restarts |-> IF Loads(ctrl_file) THEN 0
                                  ELSE op.restarts + (IF lc.cur.restarted THEN 1 ELSE 0),
                     u |-> lc.u, pre |-> Snap(DynState), pre_sp |-> SpSnap(SpState),
                     pre_cycle |-> cycle,
                     pre_ended |-> ~Loads(ctrl_file) /\ op.ended]
    /\ UNCHANGED <<cfg, ctrl_file, alloc>>

\* The control file is rewritten with another content.
WriteControls(c) ==
    /\ op.n < MaxLoopSteps
    /\ ctrl_file # Some(c)
    /\ ctrl_file' = Some(c)
    /\ polled_since' = None
    /\ UNCHANGED <<dynVars, op, waypoints, loop, start_t, e_int, e_att_int, cycle, alloc>>

\* The control file is removed (load_controls then returns None).
RemoveControls ==
    /\ op.n < MaxLoopSteps
    /\ ~IsNone(ctrl_file)
    /\ ctrl_file' = None
    /\ polled_since' = None
    /\ UNCHANGED <<dynVars, op, waypoints, loop, start_t, e_int, e_att_int, cycle, alloc>>

\* Waypoint schedules: the file holds a waypoint list from the start and may
\* be removed; the attitude is on target.
InitSched ==
    /\ InitLoop
    /\ \E wps \in WaypointLists, lp \in BOOLEAN : ctrl_file = Some(Ctrl(wps, lp, None))

NextSched == Handler(0) \/ RemoveControls

SpecSched == InitSched /\ [][NextSched]_vars

\* Target changes: single targets and a waypoint list are written, rewritten
\* and removed while the loop runs, with attitude errors of either sign.
\* The target at height 8 is far enough above the start for the position loop
\* to saturate the allocator.
TargetCtrls ==
    {Ctrl(<<>>, FALSE, Some(DEFAULT_POS)), Ctrl(<<>>, FALSE, Some(8)),
     Ctrl(<<Waypoint(2, HOLD)>>, FALSE, None)}

AttErrs == {0 - 1, 1}

InitInt == InitLoop /\ ctrl_file = None

NextInt ==
    \/ \E e_R \in AttErrs : Handler(e_R)
    \/ \E c \in TargetCtrls : WriteControls(c)
    \/ RemoveControls

SpecInt == InitInt /\ [][NextInt]_vars

(***************************************************************************)
(* Specification of the allocator alone: a TiltAllocator is constructed    *)
(* with thrust limits thrust_min <= thrust_max of either sign and asked    *)
(* to allocate desired wrenches.  alloc records the limits, the last       *)
(* wrench and what allocate returned for it.                               *)
(***************************************************************************)
\* Limits whose spin speed sqrt(thrust / k_thrust) is a whole number, so that the
\* thrust a returned speed implies can be compared with them exactly.
ThrustLimits == {r * r : r \in 0..MaxRoot} \cup {0 - r * r : r \in 1..MaxRoot}

Wrenches ==
    {<<fx, 0, fz, 0, ty, tz>> :
        fx \in {0, 2}, fz \in {0 - 8, 0, 3, 8, 40}, ty \in {0 - 40, 0, 6}, tz \in {0, 4}}

AllocParams == [thrust_min |-> alloc.thrust_min, thrust_max |-> alloc.thrust_max,
                reg_num |-> LoopAlloc.reg_num, reg_den |-> LoopAlloc.reg_den,
                yaw_drag_scale |-> LoopAlloc.yaw_drag_scale]

InitAlloc ==
    /\ Constructed(LoopCfg)
    /\ op = NoOp
    /\ IdleSetpoints
    /\ \E lo \in ThrustLimits, hi \in ThrustLimits :
          /\ lo <= hi
          /\ alloc = [thrust_min |-> lo, thrust_max |-> hi, wrench |-> <<0, 0>>,
                      omegas |-> <<>>, servo_angles |-> <<>>]

CallAllocate(wrench) ==
    /\ \E u \in {Allocate(wrench, AllocParams)} :
          alloc' = [alloc EXCEPT !.wrench = wrench, !.omegas = u.omegas,
                                 !.servo_angles = u.servo_angles]
    /\ UNCHANGED <<dynVars, cfg, op, spVars>>

NextAlloc == \E w \in Wrenches : CallAllocate(w)

SpecAlloc == InitAlloc /\ [][NextAlloc]_vars

(***************************************************************************)
(* Claims about the allocator (checked under SpecAlloc).                   *)
(***************************************************************************)
\* k_thrust * omega^2 lies in [lo, hi], with k_thrust = 1 / KThrustInv.
ImpliedThrustWithin(omega, lo, hi) ==
    /\ lo * KThrustInv <= omega * omega
    /\ omega * omega <= hi * KThrustInv

\* C1 (as claimed): for every wrench and every pair of limits with
\* thrust_min <= thrust_max, the thrust implied by each spin command allocate
\* returns lies in [thrust_min, thrust_max].
C1_ImpliedThrustWithinLimits ==
    alloc.thrust_min <= alloc.thrust_max =>
        \A i \in DOMAIN alloc.omegas :
            ImpliedThrustWithin(alloc.omegas[i], alloc.thrust_min, alloc.thrust_max)

\* C1 (amended): for every wrench and every pair of limits with
\* thrust_min <= thrust_max and thrust_max >= 0, the thrust implied by each spin
\* command allocate returns lies in [thrust_min, thrust_max].
C1_ImpliedThrustWithinNonNegativeLimits ==
    (alloc.thrust_min <= alloc.thrust_max /\ alloc.thrust_max >= 0) =>
        \A i \in DOMAIN alloc.omegas :
            ImpliedThrustWithin(alloc.omegas[i], alloc.thrust_min, alloc.thrust_max)

\* C1 witness: an allocation between positive limits in which the least-squares
\* thrust of one rotor lay above thrust_max and that of the other below
\* thrust_min, both returned at the limit.
C1_Witness ==
    /\ Len(alloc.omegas) = NRotors
    /\ 0 < alloc.thrust_min /\ alloc.thrust_min < alloc.thrust_max
    /\ LET f == SolveThrusts(AllocMatrix(alloc.servo_angles, AllocParams),
                             alloc.wrench, AllocParams)
       IN  \E i, j \in 1..NRotors :
              /\ f[i] > alloc.thrust_max
              /\ alloc.omegas[i] * alloc.omegas[i] = alloc.thrust_max * KThrustInv
              /\ f[j] < alloc.thrust_min
              /\ alloc.omegas[j] * alloc.omegas[j] = alloc.thrust_min * KThrustInv

(***************************************************************************)
(* Claims about the closed loop (checked under SpecSched and SpecInt).     *)
(***************************************************************************)
Polled == op.name = "handler"

\* What load_from_ctrl would install for a control file: the target it names.
TargetOf(ctrl) ==
    IF Val(ctrl).waypoints # <<>>
    THEN [waypoints |-> Val(ctrl).waypoints, loop |-> Val(ctrl).loop]
    ELSE [waypoints |-> <<Waypoint(Val(Val(ctrl).target), HOLD)>>, loop |-> FALSE]

ActiveTarget(sp) == [waypoints |-> sp.waypoints, loop |-> sp.loop]

\* C2 (as claimed): on a step whose control file names a target, the two
\* integral accumulators restart from zero exactly when that target differs from
\* the one already active; a re-supplied, unchanged target leaves them
\* accumulating onto their previous values.
C2_IntegralsResetOnlyOnTargetChange ==
    (Polled /\ Loads(op.ctrl)) =>
        LET base == IF TargetOf(op.ctrl) # ActiveTarget(op.pre_sp)
                    THEN [e_int |-> 0, e_att_int |-> 0]
                    ELSE [e_int |-> op.pre_sp.e_int, e_att_int |-> op.pre_sp.e_att_int]
        IN  /\ e_int = ClampVec(base.e_int + op.e_p * DT, INT_LIMIT)
            /\ e_att_int = ClampVec(base.e_att_int + op.e_R * DT, ATT_INT_LIMIT_X10)

\* Prefix sum d_1 + ... + d_i of the dwell durations.
RECURSIVE DwellSum(_, _)
DwellSum(wps, i) == IF i = 0 THEN 0 ELSE DwellSum(wps, i - 1) + wps[i].duration

C4_EveryPositiveDwellActiveEachCycle ==
    (Polled /\ op.restarted) =>
        \A i \in 1..Len(waypoints) :
            waypoints[i].duration > 0 => \E n \in 1..Len(op.pre_cycle) : op.pre_cycle[n] = i

\* C4 (amended): with looping on, once the elapsed time reaches the sum of the
\* dwell durations current returns the first waypoint and restarts the schedule
\* at that time; in every cycle the waypoints become active in list order, and
\* every waypoint whose dwell duration exceeds the polling step dt has been
\* active when the cycle ends.
C4_LoopCyclesInListOrder ==
    /\ (Polled /\ op.restarted) =>
          /\ op.t_now - op.pre_sp.start_t >= DwellSum(waypoints, Len(waypoints))
                \/ op.loaded
          /\ op.idx = 1 /\ start_t = op.t_now /\ cycle = <<1>>
          /\ ~op.loaded =>
                \A i \in 1..Len(waypoints) :
                    waypoints[i].duration > DT =>
                        \E n \in 1..Len(op.pre_cycle) : op.pre_cycle[n] = i
    /\ (Polled /\ loop) =>
          /\ op.t_now - (IF op.loaded THEN op.t_now ELSE op.pre_sp.start_t)
                >= DwellSum(waypoints, Len(waypoints)) => op.restarted
          /\ \A n \in 1..(Len(cycle) - 1) : cycle[n] < cycle[n + 1]

\* C4 witness: the second restart of a looping schedule of two waypoints, the
\* second dwelling longer than dt, the cycle just ended having visited both in
\* order.
C4_Witness ==
    /\ Polled /\ op.restarted /\ ~op.loaded
    /\ op.restarts = 2
    /\ Len(waypoints) = 2
    /\ waypoints[1].duration > 0
    /\ waypoints[2].duration > DT
    /\ op.pre_cycle = <<1, 2>>

\* C5 (as claimed): while an unchanged multi-waypoint control file is polled on
\* every step, elapsed time is measured from the step that first applied it, so
\* the second waypoint is the active one once that time has passed the first
\* dwell duration (and not yet the second).
C5_UnchangedFileScheduleAdvances ==
    (/\ Polled
     /\ ~IsNone(op.ctrl) /\ Len(Val(op.ctrl).waypoints) >= 2
     /\ ~IsNone(op.polled_since)) =>
        LET wps == Val(op.ctrl).waypoints
            el == op.t_now - Val(op.polled_since)
        IN  (wps[1].duration <= el /\ el < wps[1].duration + wps[2].duration)
                => op.idx = 2

\* C6: every closed-loop step evaluates the controller and the allocator on the
\* state from before the step, advances both actuator models exactly once by dt,
\* integrates the rigid body over the same dt with the actuators' post-update
\* outputs, and increases the time by exactly dt.
C6_StepOrder ==
    Polled =>
        LET lc == LoopControl(op.pre_sp, op.ctrl, op.pre.x, op.pre.t, op.e_R, DT)
            cmd_om == List(op.u.omegas)
            cmd_sv == List([i \in 1..NRotors |-> List(op.u.servo_angles[i])])
            un == Unflatten(angle)
            applied == ControlInput(List(omegas), List([i \in 1..NRotors |-> List(un[i])]))
        IN  /\ op.u = lc.u
            /\ omegas = RotorActStep(op.pre.omegas, cmd_om, DT, cfg)
            /\ rate = ServoRateStep(op.pre.angle, op.pre.rate, cmd_sv, DT, cfg)
            /\ angle = ServoAngleStep(op.pre.angle, op.pre.rate, cmd_sv, DT, cfg)
            /\ last_u = Some(applied)
            /\ x = RK4(op.pre.t, op.pre.x, applied, DT, cfg)
            /\ t = op.pre.t + DT

\* C6 witness: a step in which the rotor lag changed the spin speeds, so that
\* the thrust integrated differs from the thrust of the speeds before the step
\* and from that of the bare commands.
C6_Witness ==
    /\ Polled
    /\ omegas # op.pre.omegas
    /\ omegas # op.u.omegas
    /\ x # RK4(op.pre.t, op.pre.x,
               ControlInput(List(op.pre.omegas), Val(last_u).servo_angles), DT, cfg)
    /\ x # RK4(op.pre.t, op.pre.x,
               ControlInput(List(op.u.omegas), Val(last_u).servo_angles), DT, cfg)

(***************************************************************************)
(* Claims about the dynamics object (checked under SpecDyn).               *)
(***************************************************************************)
Stepped == op.name = "step_with_commands" /\ ~op.raised

\* The rotor actuator's step ran to its end in the last call.
RotorStepRan ==
    op.name = "step_with_commands" /\ cfg.act /\ ~BroadcastRaises(op.omega_cmds, NRotors)

\* C7: a step evaluates the force/torque callback exactly four times, in order
\* at t, t+h/2, t+h/2 and t+h, each time with the same control input, and then
\* sets the state to x + (h/6)(k1 + 2 k2 + 2 k3 + k4), k_n being the derivative
\* at the n-th evaluation.
C7_FourEvaluationsRK4 ==
    Stepped =>
        /\ Len(calls) = 4
        /\ <<calls[1].t, calls[2].t, calls[3].t, calls[4].t>> =
             <<op.pre.t, op.pre.t + op.h \div 2, op.pre.t + op.h \div 2, op.pre.t + op.h>>
        /\ \A n \in 1..4 : calls[n].u = Val(last_u)
        /\ calls[1].x = op.pre.x
        /\ LET k == [n \in 1..4 |-> Derivative(calls[n].t, calls[n].x, calls[n].u, cfg)]
           IN  /\ 6 * (x.p - op.pre.x.p) = op.h * (k[1].p + 2 * k[2].p + 2 * k[3].p + k[4].p)
               /\ 6 * (x.v - op.pre.x.v) = op.h * (k[1].v + 2 * k[2].v + 2 * k[3].v + k[4].v)

\* C7 witness: a completed step whose four stage derivatives are not all equal.
C7_Witness ==
    /\ Stepped
    /\ Len(calls) = 4
    /\ Derivative(calls[1].t, calls[1].x, calls[1].u, cfg)
         # Derivative(calls[4].t, calls[4].x, calls[4].u, cfg)
    /\ Derivative(calls[2].t, calls[2].x, calls[2].u, cfg)
         # Derivative(calls[3].t, calls[3].x, calls[3].u, cfg)

\* C8 (as claimed): whenever step_with_commands raises, the rotor-lag state, the
\* servo-lag state, the rigid-body state and the time are what they were before
\* the call.
C8_RaisedStepLeavesStateUnchanged ==
    (op.name = "step_with_commands" /\ op.raised) =>
        /\ omegas = op.pre.omegas
        /\ angle = op.pre.angle
        /\ rate = op.pre.rate
        /\ x = op.pre.x
        /\ t = op.pre.t

\* C9: after reset the rigid-body state is the given (or default) state, time
\* is the given t, and every spin speed, hinge angle and hinge rate is zero.
C9_ResetClearsActuators ==
    op.name = "reset" =>
        /\ x = IF IsNone(op.state) THEN DefaultState ELSE Val(op.state)
        /\ t = op.h
        /\ \A i \in DOMAIN omegas : omegas[i] = 0
        /\ \A k \in DOMAIN angle : angle[k] = 0
        /\ \A k \in DOMAIN rate : rate[k] = 0

\* C9 witness: a reset that found both actuators away from zero.
C9_Witness ==
    /\ op.name = "reset"
    /\ cfg.act /\ cfg.servo
    /\ \E i \in DOMAIN op.pre.omegas : op.pre.omegas[i] # 0
    /\ \E k \in DOMAIN op.pre.angle : op.pre.angle[k] # 0 /\ op.pre.rate[k] # 0
    /\ op.pre.x # x

\* C10: after the rotor actuator's step every spin speed is at least omega_min
\* and, when an upper bound is configured, at most omega_max.
C10_RotorSpeedWithinBounds ==
    RotorStepRan =>
        \A i \in 1..NRotors :
            /\ omegas[i] >= cfg.omega_min
            /\ ~IsNone(cfg.omega_max) => omegas[i] <= Val(cfg.omega_max)

\* C10 witness: one step in which the lag alone would have left one rotor above
\* omega_max and another below omega_min.
C10_Witness ==
    /\ RotorStepRan
    /\ ~IsNone(cfg.omega_max)
    /\ LET cmds == Broadcast(op.omega_cmds, 0, NRotors)
           raw == [i \in 1..NRotors |->
                     op.pre.omegas[i] + ((cmds[i] - op.pre.omegas[i]) * op.h) \div cfg.tau]
       IN  /\ \E i \in 1..NRotors : raw[i] > Val(cfg.omega_max) /\ omegas[i] = Val(cfg.omega_max)
           /\ \E i \in 1..NRotors : raw[i] < cfg.omega_min /\ omegas[i] = cfg.omega_min

(***************************************************************************)
(* Specification of the servo actuator alone: a ServoSecondOrderActuator   *)
(* is constructed with angle bounds of every kind (absent, one-sided,      *)
(* two-sided, crossed) and stepped with hinge commands of every shape.     *)
(***************************************************************************)
AngleBounds == {None, Some(0 - 1), Some(1)}

ServoCfgs ==
    {[BaseCfg EXCEPT !.angle_min = lo, !.angle_max = hi] :
        lo \in AngleBounds, hi \in AngleBounds}

InitServo ==
    /\ \E c \in ServoCfgs : Constructed(c)
    /\ op = [name |-> "init", n |-> 0, raised |-> FALSE, h |-> 0,
             servo_cmds |-> NoneArg, returned |-> <<>>,
             pre |-> [angle |-> <<>>, rate |-> <<>>]]
    /\ IdleSetpoints
    /\ IdleAlloc

\* ServoSecondOrderActuator.step(servo_cmds, dt): raises before it assigns, or
\* assigns rate and angle and returns the unflattened angles.
CallServoStep(servo_cmds, dt) ==
    /\ op.n < MaxOps
    /\ IF FlattenRaises(servo_cmds)
       THEN /\ UNCHANGED <<angle, rate>>
            /\ op' = [name |-> "servo_step", n |-> op.n + 1, raised |-> TRUE, h |-> dt,
                      servo_cmds |-> servo_cmds, returned |-> <<>>,
                      pre |-> [angle |-> angle, rate |-> rate]]
       ELSE \E an \in {ServoAngleStep(angle, rate, servo_cmds, dt, cfg)} :
            /\ angle' = an
            /\ rate' = ServoRateStep(angle, rate, servo_cmds, dt, cfg)
            /\ op' = [name |-> "servo_step", n |-> op.n + 1, raised |-> FALSE, h |-> dt,
                      servo_cmds |-> servo_cmds, returned |-> Unflatten(an),
                      pre |-> [angle |-> angle, rate |-> rate]]
    /\ UNCHANGED <<x, t, last_u, omegas, cfg, calls, spVars, alloc>>

NextServo == \E sc \in ServoCmdArgs, dt \in {DT \div 2, DT} : CallServoStep(sc, dt)

SpecServo == InitServo /\ [][NextServo]_vars

(***************************************************************************)
(* Claims about the servo actuator (checked under SpecServo).              *)
(***************************************************************************)
ServoStepRan == op.name = "servo_step" /\ ~op.raised

\* Every hinge angle, as stored and as returned, respects the bounds configured.
AnglesWithinBounds ==
    /\ \A k \in 1..TotalServos :
          /\ ~IsNone(cfg.angle_min) => angle[k] >= Val(cfg.angle_min)
          /\ ~IsNone(cfg.angle_max) => angle[k] <= Val(cfg.angle_max)
    /\ \A i \in 1..NRotors : \A j \in 1..Len(op.returned[i]) :
          /\ ~IsNone(cfg.angle_min) => op.returned[i][j] >= Val(cfg.angle_min)
          /\ ~IsNone(cfg.angle_max) => op.returned[i][j] <= Val(cfg.angle_max)

\* C11 (as claimed): after every step of the servo actuator, for any command
\* and any dt, each hinge angle stored and returned is at least angle_min when
\* that is configured and at most angle_max when that is configured.
C11_HingeAngleWithinBounds == ServoStepRan => AnglesWithinBounds

\* C11 (amended): the same, for bounds that, when both are configured, satisfy
\* angle_min <= angle_max.
C11_HingeAngleWithinOrderedBounds ==
    (/\ ServoStepRan
     /\ (~IsNone(cfg.angle_min) /\ ~IsNone(cfg.angle_max))
            => Val(cfg.angle_min) <= Val(cfg.angle_max)) => AnglesWithinBounds

\* C11 witness: a step between two distinct bounds whose integration alone left
\* the hinge outside them, the stored and returned angle being the bound.
C11_Witness ==
    /\ ServoStepRan
    /\ ~IsNone(cfg.angle_min) /\ ~IsNone(cfg.angle_max)
    /\ Val(cfg.angle_min) < Val(cfg.angle_max)
    /\ LET r1 == ServoRateStep(op.pre.angle, op.pre.rate, op.servo_cmds, op.h, cfg)
       IN  /\ op.pre.angle[1] + r1[1] * op.h < Val(cfg.angle_min)
           /\ angle[1] = Val(cfg.angle_min)
           /\ op.returned[1] = <<Val(cfg.angle_min)>>

(***************************************************************************)
(* Specification of the hinge-command layout: a servo actuator is built    *)
(* for some hinge counts and per-rotor command lists (exact, short, long   *)
(* or missing a rotor) are flattened and unpacked again.  op records the   *)
(* counts, the commands, the flat array and the unpacked lists.            *)
(***************************************************************************)
CountVectors == UNION {[1..n -> 0..MaxHinges] : n \in 1..MaxLayoutRotors}

\* Command values: all alike, or telling rotor and hinge apart.
CmdValue(pattern, i, j) == IF pattern = 0 THEN 1 ELSE 10 * i + j

HingeCmdLists(counts) ==
    {List([i \in 1..m |-> List([j \in 1..len[i] |-> CmdValue(pattern, i, j)])]) :
        m \in {Len(counts) - 1, Len(counts)},
        len \in {l \in [1..Len(counts) -> 0..(MaxHinges + 1)] :
                    \A i \in 1..Len(counts) :
                        l[i] - counts[i] \in {0 - 1, 0, 1}},
        pattern \in {0, 1}}

\* The plain lists of lists a tagged command list stands for.
PlainCmds(servo_cmds) == [i \in 1..Len(servo_cmds.v) |-> servo_cmds.v[i].v]

InitLayout ==
    /\ Constructed(LoopCfg)
    /\ \E counts \in CountVectors :
          op = [name |-> "init", counts |-> counts, cmds |-> <<>>, flat |-> <<>>,
                out |-> <<>>]
    /\ IdleSetpoints
    /\ IdleAlloc

\* self._unflatten(self._flatten_cmds(servo_cmds)).  Neither function reads or
\* writes anything but servo_counts, so one application per layout covers all.
FlattenUnflatten(servo_cmds) ==
    /\ op.name = "init"
    /\ \E flat \in {FlattenFor(op.counts, servo_cmds)} :
          op' = [name |-> "flatten_unflatten", counts |-> op.counts,
                 cmds |-> PlainCmds(servo_cmds), flat |-> flat,
                 out |-> UnflattenFor(op.counts, flat)]
    /\ UNCHANGED <<dynVars, cfg, spVars, alloc>>

NextLayout == \E sc \in HingeCmdLists(op.counts) : FlattenUnflatten(sc)

SpecLayout == InitLayout /\ [][NextLayout]_vars

(***************************************************************************)
(* Claims about the hinge-command layout (checked under SpecLayout).       *)
(***************************************************************************)
\* The command list has one entry per rotor, each with exactly as many angles as
\* the rotor has hinges.
ExactCmds ==
    /\ Len(op.cmds) = Len(op.counts)
    /\ \A i \in 1..Len(op.counts) : Len(op.cmds[i]) = op.counts[i]

\* The per-rotor lists laid end to end, in declaration order.
RECURSIVE Concat(_, _)
Concat(lists, n) == IF n = 0 THEN <<>> ELSE Concat(lists, n - 1) \o lists[n]

\* C12: for every command list whose i-th entry has exactly servo_counts[i]
\* angles, the flat array is the entries laid end to end in rotor order and
\* unflattening it gives the command list back.
C12_UnflattenRestoresCmds ==
    (op.name = "flatten_unflatten" /\ ExactCmds) =>
        /\ op.flat = Concat(op.cmds, Len(op.cmds))
        /\ op.out = op.cmds

\* C12 witness: a round trip over a layout in which two rotors have hinges, one
\* of them two, with a fixed rotor between them and every angle different.
C12_Witness ==
    /\ op.name = "flatten_unflatten" /\ ExactCmds
    /\ op.counts = <<2, 0, 1>>
    /\ op.cmds = << <<11, 12>>, <<>>, <<31>> >>
    /\ op.flat = <<11, 12, 31>>
    /\ op.out = op.cmds

(***************************************************************************)
(* Further claims about the dynamics object (checked under SpecDyn).       *)
(***************************************************************************)
\* C13: without a rotor actuator model the spin speeds a completed
\* step_with_commands hands to the plant are the commanded ones; without a servo
\* actuator model the hinge angles handed over are the commanded ones, or one
\* empty list per rotor when none were given.
C13_CommandsPassThrough ==
    Stepped =>
        /\ ~cfg.act =>
              /\ Val(last_u).omegas = op.omega_cmds
              /\ \A n \in 1..Len(calls) : calls[n].u.omegas = op.omega_cmds
        /\ ~cfg.servo =>
              LET given == IF op.servo_angles.kind = "none"
                           THEN List([i \in 1..NRotors |-> List(<<>>)])
                           ELSE op.servo_angles
              IN  /\ Val(last_u).servo_angles = given
                  /\ \A n \in 1..Len(calls) : calls[n].u.servo_angles = given

\* C13 witness: a completed step of a model without either actuator, given
\* non-zero spin commands some first-order lag would not have reached in one
\* step, and no hinge commands.
C13_Witness ==
    /\ Stepped
    /\ ~cfg.act /\ ~cfg.servo
    /\ op.omega_cmds = List(<<100, 0>>)
    /\ op.servo_angles = NoneArg
    /\ Val(last_u).omegas.v # RotorActStep(<<0, 0>>, op.omega_cmds, op.h, BaseCfg)
    /\ Val(last_u).servo_angles = List(<<List(<<>>), List(<<>>)>>)

(***************************************************************************)
(* Specification of the plant's force/torque callback alone: a plant with  *)
(* some ground configuration is asked for the wrench at some state and     *)
(* control input.  op records the wrench returned and the wrench the same  *)
(* plant without a ground returns for the same arguments.                  *)
(***************************************************************************)
\* The contact force in the world frame (the attitude is level, so R_body.T
\* leaves it as it is).
GroundContactWorld(xx, c) == <<0, 0, GroundForce(xx, c)>>

\* tau_body of one rotor: arm x thrust plus the drag torque about the rotor axis
\* (no rotor inertia, so no gyroscopic term).
RotorTorque(u, i) ==
    LET thrust == RotorThrust(OmegaOf(u, i))
        arm == Cross(RotorPos[i], <<0, 0, thrust>>)
    IN  <<arm[1], arm[2], arm[3] + KDragOverKThrust * thrust * SpinDir[i]>>

\* MultiTiltRotorPlant.force_torque: (total_F, total_tau).
ForceTorque(xx, u, c) ==
    LET contact == GroundContactWorld(xx, c)
        thrust == SumSeq([i \in 1..NRotors |-> RotorThrust(OmegaOf(u, i))])
    IN  [F |-> <<contact[1], contact[2], thrust + contact[3]>>,
         tau |-> [r \in 1..3 |-> SumSeq([i \in 1..NRotors |-> RotorTorque(u, i)[r]])]]

GroundCfgs ==
    {[BaseCfg EXCEPT !.ground_height = gh, !.ground_k = k, !.ground_d = d] :
        gh \in {None, Some(0), Some(1)}, k \in {0 - 1, 0, 3}, d \in {0 - 2, 0, 1}}

BodyStates == {[p |-> p, v |-> v] : p \in {0 - 2, 0, 1, 2}, v \in {0 - 9, 0 - 1, 0, 9}}

PlantInputs ==
    {ControlInput(List(om), List(<<List(<<0>>), List(<<>>)>>)) :
        om \in {<<0, 0>>, <<20, 10>>}}

NoGround(c) == [c EXCEPT !.ground_height = None]

InitGround ==
    /\ \E c \in GroundCfgs, xx \in BodyStates :
          /\ cfg = c
          /\ x = xx
    /\ t = 0
    /\ last_u = None
    /\ calls = <<>>
    /\ omegas = <<0, 0>>
    /\ angle = <<0>>
    /\ rate = <<0>>
    /\ op = [name |-> "init", u |-> ControlInput(List(<<>>), List(<<>>)),
             wrench |-> [F |-> <<0, 0, 0>>, tau |-> <<0, 0, 0>>],
             free |-> [F |-> <<0, 0, 0>>, tau |-> <<0, 0, 0>>]]
    /\ IdleSetpoints
    /\ IdleAlloc

\* plant.force_torque(t, x, u)
CallForceTorque(u) ==
    /\ op' = [name |-> "force_torque", u |-> u,
              wrench |-> ForceTorque(x, u, cfg),
              free |-> ForceTorque(x, u, NoGround(cfg))]
    /\ UNCHANGED <<dynVars, cfg, spVars, alloc>>

NextGround == \E u \in PlantInputs : CallForceTorque(u)

SpecGround == InitGround /\ [][NextGround]_vars

(***************************************************************************)
(* Claims about the ground contact (checked under SpecGround).             *)
(***************************************************************************)
\* C14: what the ground adds to the wrench is a force along world Z only, never
\* negative, zero when the body is at or above ground_height or the ground is
\* not configured (no height, or spring constant not positive); it adds nothing
\* to the torque.
C14_GroundContactVerticalNonNegative ==
    op.name = "force_torque" =>
        LET added == [r \in 1..3 |-> op.wrench.F[r] - op.free.F[r]]
        IN  /\ added[1] = 0 /\ added[2] = 0
            /\ added[3] >= 0
            /\ (IsNone(cfg.ground_height) \/ cfg.ground_k <= 0) => added[3] = 0
            /\ (~IsNone(cfg.ground_height) /\ x.p >= Val(cfg.ground_height))
                  => added[3] = 0
            /\ op.wrench.tau = op.free.tau
            /\ op.wrench.F[3] = PlantForce(x, op.u, cfg)

\* C14 witness: a body below the ground plane and sinking, the damper pulling
\* against the spring (negative ground_d) harder than the spring pushes, with
\* the rotors producing torque: the contact adds nothing.
C14_Witness ==
    /\ op.name = "force_torque"
    /\ ~IsNone(cfg.ground_height) /\ cfg.ground_k > 0
    /\ Val(cfg.ground_height) - x.p > 0
    /\ cfg.ground_k * (Val(cfg.ground_height) - x.p) - cfg.ground_d * Min(x.v, 0) < 0
    /\ op.wrench.F = op.free.F
    /\ op.wrench.tau # <<0, 0, 0>>

(***************************************************************************)
(* Further claims about the closed loop (checked under SpecInt).           *)
(***************************************************************************)
\* C15: after every closed-loop step the position-error integral lies within
\* [-5.0, 5.0] and the attitude-error integral within [-0.5, 0.5], whatever
\* errors were accumulated.
C15_IntegralsWithinLimits ==
    Polled =>
        /\ 0 - INT_LIMIT <= e_int /\ e_int <= INT_LIMIT
        /\ 0 - ATT_INT_LIMIT_X10 <= e_att_int /\ e_att_int <= ATT_INT_LIMIT_X10

\* C15 witness: a step that kept accumulating (no target loaded) and whose sums
\* left the limits on either side, the position integral above and the attitude
\* integral below, both stored at the limit.
C15_Witness ==
    /\ Polled /\ ~op.loaded
    /\ op.pre_sp.e_int + op.e_p * DT > INT_LIMIT
    /\ e_int = INT_LIMIT
    /\ op.pre_sp.e_att_int + op.e_R * DT < 0 - ATT_INT_LIMIT_X10
    /\ e_att_int = 0 - ATT_INT_LIMIT_X10

(***************************************************************************)
(* Specification of the MPC loop (demo_mpc.run_server.handler).  The       *)
(* solver is external: on each iteration it either raises or returns a     *)
(* first control u0 = (thrusts, hinge commands).  op records what the      *)
(* iteration commanded and whether an exception left the handler, which    *)
(* ends the loop.                                                          *)
(***************************************************************************)
SolverOutcomes ==
    {[raised |-> TRUE, thrusts |-> <<>>, servo_cmds |-> <<>>]} \cup
    {[raised |-> FALSE, thrusts |-> th, servo_cmds |-> sv] :
        th \in {<<0, 0>>, <<25, 25>>, <<36, 4>>, <<0 - 4, 9>>},
        sv \in {<<0>>, <<1>>, <<0 - 1>>}}

\* Faulty variant of the fallback: the rotors are kept spinning.
MpcFallbackSpinning ==
    [omegas |-> [i \in 1..NRotors |-> 50],
     servo_split |-> [i \in 1..NRotors |-> [j \in 1..ServoCounts[i] |-> 0]]]

\* The except branch: spin command 0.0 per rotor, 0.0 per hinge of every rotor.
MpcFallback ==
    [omegas |-> [i \in 1..NRotors |-> 0],
     servo_split |-> [i \in 1..NRotors |-> [j \in 1..ServoCounts[i] |-> 0]]]

\* The try branch: u0 split into per-rotor hinge commands and spin speeds
\* sqrt(max(thrust, 0) / k_thrust).
MpcFromSolution(out) ==
    [omegas |-> [i \in 1..NRotors |-> ThrustToOmega(out.thrusts[i])],
     servo_split |-> UnflattenFor(ServoCounts, out.servo_cmds)]

MpcCommands(out) == IF out.raised THEN MpcFallback ELSE MpcFromSolution(out)

InitMpc ==
    /\ Constructed(LoopCfg)
    /\ op = [name |-> "init", n |-> 0, solver_raised |-> FALSE, propagated |-> FALSE,
             omegas |-> <<>>, servo_split |-> <<>>,
             pre |-> [x |-> DefaultState, t |-> 0, omegas |-> <<>>, angle |-> <<>>,
                      rate |-> <<>>]]
    /\ IdleSetpoints
    /\ IdleAlloc

\* One iteration of the MPC handler's while loop.
MpcHandler(out) ==
    /\ op.n < MaxOps
    /\ ~op.propagated
    /\ \E cmd \in {MpcCommands(out)} :
       \E s \in {StepWithCommands(DynState, List(cmd.omegas),
                    List([i \in 1..NRotors |-> List(cmd.servo_split[i])]), DT, cfg)} :
          /\ Install(s)
          /\ op' = [name |-> "mpc_handler", n |-> op.n + 1, solver_raised |-> out.raised,
                    propagated |-> s.raised, omegas |-> cmd.omegas,
                    servo_split |-> cmd.servo_split,
                    pre |-> Snap(DynState)]
    /\ UNCHANGED <<cfg, spVars, alloc>>

NextMpc == \E out \in SolverOutcomes : MpcHandler(out)

SpecMpc == InitMpc /\ [][NextMpc]_vars

(***************************************************************************)
(* Claims about the MPC loop (checked under SpecMpc).                      *)
(***************************************************************************)
\* C16: when the solver raises on a step, no exception leaves the handler; the
\* step commands spin 0 for every rotor and hinge angle 0 for every hinge of
\* every rotor, the simulation advances by dt under those commands, and the loop
\* is left running (nothing propagated, which is all that ends it).
C16_SolverFaultFallsBackToZero ==
    (op.name = "mpc_handler" /\ op.solver_raised) =>
          /\ ~op.propagated
          /\ Len(op.omegas) = NRotors /\ \A i \in 1..NRotors : op.omegas[i] = 0
          /\ Len(op.servo_split) = NRotors
          /\ \A i \in 1..NRotors :
                /\ Len(op.servo_split[i]) = ServoCounts[i]
                /\ \A j \in 1..ServoCounts[i] : op.servo_split[i][j] = 0
          /\ omegas = RotorActStep(op.pre.omegas, List([i \in 1..NRotors |-> 0]), DT, cfg)
          /\ angle = ServoAngleStep(op.pre.angle, op.pre.rate, NoneArg, DT, cfg)
          /\ x = RK4(op.pre.t, op.pre.x, Val(last_u), DT, cfg)
          /\ t = op.pre.t + DT

\* C16 witness: a solver fault on a step that found the rotors spinning and the
\* hinge deflected; the step was taken and the loop is still running.
C16_Witness ==
    /\ op.name = "mpc_handler" /\ op.solver_raised
    /\ \E i \in 1..NRotors : op.pre.omegas[i] # 0
    /\ op.pre.angle[1] # 0
    /\ t = op.pre.t + DT
    /\ ~op.propagated

(***************************************************************************)
(* Specification of the allocator over hinge layouts: the two rotors are   *)
(* given every number of hinge axes up to MaxHinges and the allocator the  *)
(* closed loop builds is asked to allocate desired wrenches.  op records   *)
(* the hinge counts, alloc the wrench and what allocate returned.          *)
(***************************************************************************)
RotorHingeCounts == [1..NRotors -> 0..MaxHinges]

InitAim ==
    /\ Constructed(LoopCfg)
    /\ \E counts \in RotorHingeCounts : op = [name |-> "init", counts |-> counts]
    /\ IdleSetpoints
    /\ alloc = [thrust_min |-> LoopAlloc.thrust_min, thrust_max |-> LoopAlloc.thrust_max,
                wrench |-> <<0, 0>>, omegas |-> <<>>, servo_angles |-> <<>>]

CallAllocateFor(wrench) ==
    /\ \E u \in {AllocateFor(op.counts, wrench, LoopAlloc)} :
          alloc' = [alloc EXCEPT !.wrench = wrench, !.omegas = u.omegas,
                                 !.servo_angles = u.servo_angles]
    /\ op' = [name |-> "allocate", counts |-> op.counts]
    /\ UNCHANGED <<dynVars, cfg, spVars>>

NextAim == \E w \in Wrenches : CallAllocateFor(w)

SpecAim == InitAim /\ [][NextAim]_vars

(***************************************************************************)
(* Claims about the shape of the allocation (checked under SpecAim).       *)
(***************************************************************************)
\* C17 (as claimed): allocate returns one spin command and one hinge-angle list
\* per rotor, and the list of each rotor has exactly as many entries as the
\* rotor has hinge axes: none for a fixed rotor, otherwise the aimed angle
\* first and 0 for every further hinge.
C17_OneAnglePerHinge ==
    op.name = "allocate" =>
        /\ Len(alloc.omegas) = NRotors
        /\ Len(alloc.servo_angles) = NRotors
        /\ \A i \in 1..NRotors :
              /\ Len(alloc.servo_angles[i]) = op.counts[i]
              /\ op.counts[i] > 0 =>
                    alloc.servo_angles[i][1] = AimServoFor(1, DirPref(alloc.wrench))[1]
              /\ \A j \in 2..op.counts[i] : alloc.servo_angles[i][j] = 0

(***************************************************************************)
(* TiltAllocator over any set of fixed-axis rotors, solved exactly.  A     *)
(* rotor set is [pos, spin, counts]: position_baselink, spin_dir and the   *)
(* number of hinge axes of each rotor; every thrust axis is body +Z.       *)
(* Thrusts are rationals num[i] / den.                                     *)
(***************************************************************************)
\* _thrust_direction_and_tau_col for rotor i of the set.
TauColOf(veh, i, a) ==
    LET arm == Cross(veh.pos[i], <<0, 0, 1>>)
        yaw_gain == KDragOverKThrust * veh.spin[i] * a.yaw_drag_scale
    IN  <<arm[1], arm[2], arm[3] + yaw_gain>>

\* The 6 x n matrix B of allocate.
AllocMatrixOf(veh, a) ==
    [r \in 1..6 |-> [i \in 1..Len(veh.pos) |->
        IF r <= 3 THEN <<0, 0, 1>>[r] ELSE TauColOf(veh, i, a)[r - 3]]]

\* Faulty variant of the normal matrix: reg added to every entry.
GramRegEverywhere(B, n, a) ==
    [i \in 1..n |-> [j \in 1..n |->
        a.reg_den * SumSeq([r \in 1..6 |-> B[r][i] * B[r][j]]) + a.reg_num]]

\* BtB = B.T @ B + reg * eye(n), scaled by reg_den.
Gram(B, n, a) ==
    [i \in 1..n |-> [j \in 1..n |->
        a.reg_den * SumSeq([r \in 1..6 |-> B[r][i] * B[r][j]])
          + (IF i = j THEN a.reg_num ELSE 0)]]

\* btw = B.T @ wrench_des, scaled by reg_den.
GramRhs(B, n, wrench, a) ==
    [i \in 1..n |-> a.reg_den * SumSeq([r \in 1..6 |-> B[r][i] * wrench[r]])]

\* Determinant by expansion along the first row.
RECURSIVE Det(_, _)
Det(M, n) ==
    IF n = 1 THEN M[1][1]
    ELSE SumSeq([j \in 1..n |->
            (IF j % 2 = 1 THEN 1 ELSE 0 - 1) * M[1][j]
              * Det([r \in 1..(n - 1) |-> [c \in 1..(n - 1) |->
                        M[r + 1][IF c < j THEN c ELSE c + 1]]], n - 1)])

\* np.linalg.solve(BtB, btw): the solution of the non-singular system, by
\* Cramer's rule, as numerators over the common denominator det(BtB).
SolveExact(M, b, n) ==
    [num |-> [i \in 1..n |->
                Det([r \in 1..n |-> [c \in 1..n |-> IF c = i THEN b[r] ELSE M[r][c]]], n)],
     den |-> Det(M, n)]

\* np.clip(f, thrust_min, thrust_max) and omega = sqrt(max(thrust, 0) / k) for
\* the thrust num / den (den > 0).
OmegaOfThrust(num, den, a) ==
    IF num < a.thrust_min * den THEN ThrustToOmega(a.thrust_min)
    ELSE IF num > a.thrust_max * den THEN ThrustToOmega(a.thrust_max)
    ELSE ISqrt((Max(num, 0) * KThrustInv) \div den)

\* TiltAllocator.allocate for the rotor set; f is kept beside what is returned.
AllocateOn(veh, wrench, a) ==
    LET n == Len(veh.pos)
        dir_pref == DirPref(wrench)
        B == AllocMatrixOf(veh, a)
    IN  \* f solved once, then clipped and converted rotor by rotor
        CHOOSE u \in
            {[omegas |-> [i \in 1..n |-> OmegaOfThrust(f.num[i], f.den, a)],
              servo_angles |-> [i \in 1..n |-> AimServoFor(veh.counts[i], dir_pref)],
              f_num |-> f.num, f_den |-> f.den] :
                f \in {SolveExact(Gram(B, n, a), GramRhs(B, n, wrench, a), n)}} : TRUE

(***************************************************************************)
(* Specification of the allocator on a symmetric quad: four fixed rotors   *)
(* equally spaced on a circle, identical k_thrust, alternating spin.       *)
(***************************************************************************)
Quad(radius) ==
    [pos |-> << <<radius, 0, 0>>, <<0, radius, 0>>, <<0 - radius, 0, 0>>,
                <<0, 0 - radius, 0>> >>,
     spin |-> <<1, 0 - 1, 1, 0 - 1>>,
     counts |-> <<0, 0, 0, 0>>]

\* reg = 1, so that F / (4 + reg) is a whole number for the forces asked.
QuadAllocs ==
    {[thrust_min |-> 0, thrust_max |-> tm, reg_num |-> 1, reg_den |-> 1,
      yaw_drag_scale |-> ys] : tm \in {ALLOC_THRUST_MAX, 110}, ys \in {1, 2}}

QuadWrenches ==
    {<<0, 0, sign * 5 * r * r, 0, 0, tz>> :
        r \in 0..MaxQuadRoot, sign \in {0 - 1, 1}, tz \in {0, 4}}

InitQuad ==
    /\ Constructed(LoopCfg)
    /\ \E radius \in {1, 2}, a \in QuadAllocs :
          /\ op = [name |-> "init", veh |-> Quad(radius), a |-> a]
          /\ alloc = [thrust_min |-> a.thrust_min, thrust_max |-> a.thrust_max,
                      wrench |-> <<0, 0>>, omegas |-> <<>>, servo_angles |-> <<>>,
                      f_num |-> <<>>, f_den |-> 1]
    /\ IdleSetpoints

\* One allocation per quad and allocator setting.
CallAllocateOn(wrench) ==
    /\ op.name = "init"
    /\ \E u \in {AllocateOn(op.veh, wrench, op.a)} :
          alloc' = [alloc EXCEPT !.wrench = wrench, !.omegas = u.omegas,
                                 !.servo_angles = u.servo_angles,
                                 !.f_num = u.f_num, !.f_den = u.f_den]
    /\ op' = [op EXCEPT !.name = "allocate"]
    /\ UNCHANGED <<dynVars, cfg, spVars>>

NextQuad == \E w \in QuadWrenches : CallAllocateOn(w)

SpecQuad == InitQuad /\ [][NextQuad]_vars

(***************************************************************************)
(* Claims about the symmetric quad (checked under SpecQuad).               *)
(***************************************************************************)
PureVertical == op.name = "allocate" /\ alloc.wrench[6] = 0

\* The four spin commands are equal, each implies the thrust F / (4 + reg)
\* exactly (k_thrust * omega^2 * (4 + reg) = F), and no hinge angle is returned.
QuadSharesForce ==
    /\ Len(alloc.omegas) = 4
    /\ \A i \in 1..4 :
          /\ alloc.omegas[i] = alloc.omegas[1]
          /\ alloc.omegas[i] * alloc.omegas[i] * (4 * op.a.reg_den + op.a.reg_num)
                = KThrustInv * alloc.wrench[3] * op.a.reg_den
          /\ alloc.servo_angles[i] = <<>>

\* C18 (as claimed): for the symmetric quad and a wrench [0,0,F,0,0,0], allocate
\* returns four equal thrusts, each F / (4 + reg), and no hinge angle.
C18_QuadEqualThrusts == PureVertical => QuadSharesForce

\* C18 (amended): the same for a force the rotors can deliver, that is with
\* thrust_min <= F / (4 + reg) <= thrust_max and F >= 0.
C18_QuadEqualThrustsWithinLimits ==
    (/\ PureVertical
     /\ alloc.wrench[3] >= 0
     /\ op.a.thrust_min * (4 * op.a.reg_den + op.a.reg_num) <= alloc.wrench[3] * op.a.reg_den
     /\ alloc.wrench[3] * op.a.reg_den
           <= op.a.thrust_max * (4 * op.a.reg_den + op.a.reg_num)) => QuadSharesForce

\* C18 witness: a positive vertical force within the limits, shared as four
\* equal non-zero thrusts by a quad whose yaw column is scaled.
C18_Witness ==
    /\ PureVertical
    /\ alloc.wrench[3] = 5 * 25
    /\ op.a.yaw_drag_scale = 2
    /\ alloc.omegas = <<50, 50, 50, 50>>
    /\ alloc.f_num = [i \in 1..4 |-> 25 * alloc.f_den]

(***************************************************************************)
(* The rigid body in full (rigid_body.py): x = [p(3), v(3), q(4), w(3)].   *)
(* Quaternion components are in units of 1 / QUnit, so that attitudes with *)
(* half-integer components are exact; the inertia is diagonal.             *)
(***************************************************************************)
QUnit == 2
Inertia == <<1, 1, 2>>

SeqAdd(a, b) == [i \in 1..Len(a) |-> a[i] + b[i]]
SeqScale(k, a) == [i \in 1..Len(a) |-> k * a[i]]
SeqDiv(a, d) == [i \in 1..Len(a) |-> a[i] \div d]

XAdd(a, b) == [p |-> SeqAdd(a.p, b.p), v |-> SeqAdd(a.v, b.v),
               q |-> SeqAdd(a.q, b.q), w |-> SeqAdd(a.w, b.w)]
XScale(k, a) == [p |-> SeqScale(k, a.p), v |-> SeqScale(k, a.v),
                 q |-> SeqScale(k, a.q), w |-> SeqScale(k, a.w)]
XDiv(a, d) == [p |-> SeqDiv(a.p, d), v |-> SeqDiv(a.v, d),
               q |-> SeqDiv(a.q, d), w |-> SeqDiv(a.w, d)]
XZero == [p |-> <<0, 0, 0>>, v |-> <<0, 0, 0>>, q |-> <<0, 0, 0, 0>>, w |-> <<0, 0, 0>>]

\* quat_mult
QuatMult(q, r) ==
    << q[1] * r[1] - q[2] * r[2] - q[3] * r[3] - q[4] * r[4],
       q[1] * r[2] + q[2] * r[1] + q[3] * r[4] - q[4] * r[3],
       q[1] * r[3] - q[2] * r[4] + q[3] * r[1] + q[4] * r[2],
       q[1] * r[4] + q[2] * r[3] - q[3] * r[2] + q[4] * r[1] >>

\* quat_from_omega
QuatFromOmega(omega) == <<0, omega[1], omega[2], omega[3]>>

\* quat_normalize: q / norm(q), for components in units of 1 / unit.
QuatNormalizeIn(unit, q) ==
    CHOOSE qn \in {[i \in 1..4 |-> (q[i] * unit) \div n] :
                      n \in {ISqrt(SumSeq([i \in 1..4 |-> q[i] * q[i]]))}} : TRUE

\* quat_to_rotmat for components in units of 1 / unit, entries scaled by unit^2.
QuatToRotmatIn(unit, q) ==
    LET w == q[1]
        xq == q[2]
        y == q[3]
        z == q[4]
        one == unit * unit
    IN  << << one - 2 * (y * y + z * z), 2 * (xq * y - z * w), 2 * (xq * z + y * w) >>,
           << 2 * (xq * y + z * w), one - 2 * (xq * xq + z * z), 2 * (y * z - xq * w) >>,
           << 2 * (xq * z - y * w), 2 * (y * z + xq * w), one - 2 * (xq * xq + y * y) >> >>

\* quat_normalize, in units of 1 / QUnit.
QuatNormalize(q) == QuatNormalizeIn(QUnit, q)

\* quat_to_rotmat, entries scaled by QUnit^2.
QuatToRotmat(q) == QuatToRotmatIn(QUnit, q)

\* Faulty variant: the rotation matrix built from the quaternion as stored.
BodyRotationRaw(xx) == QuatToRotmat(xx.q)

\* state_to_body_pose_world: the rotation matrix of the normalised attitude.
BodyRotation(xx) ==
    CHOOSE R \in {QuatToRotmat(qn) : qn \in {QuatNormalize(xx.q)}} : TRUE

\* MultiTiltRotorPlant.force_torque for spin speeds u (one per rotor, thrust
\* axes along body +Z): rotor thrust, arm and drag torque, and the ground
\* contact turned into the body frame.  contact tells whether the ground pushed.
ForceTorque6DOF(xx, u, c) ==
    LET F_rotor == [i \in 1..NRotors |-> <<0, 0, RotorThrust(u[i])>>]
        tau_rotor == [i \in 1..NRotors |->
            SeqAdd(Cross(RotorPos[i], F_rotor[i]),
                   <<0, 0, KDragOverKThrust * RotorThrust(u[i]) * SpinDir[i]>>)]
        total_F == [k \in 1..3 |-> SumSeq([i \in 1..NRotors |-> F_rotor[i][k]])]
        total_tau == [k \in 1..3 |-> SumSeq([i \in 1..NRotors |-> tau_rotor[i][k]])]
        penetration == IF IsNone(c.ground_height) THEN 0
                       ELSE Val(c.ground_height) - xx.p[3]
        Fz == c.ground_k * penetration - c.ground_d * Min(xx.v[3], 0)
    IN  IF ~IsNone(c.ground_height) /\ c.ground_k > 0 /\ penetration > 0 /\ Fz > 0
        THEN CHOOSE ft \in
                {[F |-> SeqAdd(total_F, [k \in 1..3 |-> (R[3][k] * Fz) \div (QUnit * QUnit)]),
                  tau |-> total_tau, contact |-> TRUE] : R \in {BodyRotation(xx)}} : TRUE
        ELSE [F |-> total_F, tau |-> total_tau, contact |-> FALSE]

\* Faulty variant of the rigid-body dynamics: standard gravity whatever the
\* vehicle's parameter.
Dynamics6DOFStandardGravity(xx, ft, c) ==
    LET R == BodyRotation(xx)
        Iw == [k \in 1..3 |-> Inertia[k] * xx.w[k]]
        gyro == Cross(xx.w, Iw)
    IN  [p |-> xx.v,
         v |-> [k \in 1..3 |->
                  (IF k = 3 THEN 0 - 1 ELSE 0)
                    + SumSeq([j \in 1..3 |-> R[k][j] * ft.F[j]]) \div (QUnit * QUnit * c.mass)],
         q |-> SeqDiv(QuatMult(QuatNormalize(xx.q), QuatFromOmega(xx.w)), 2),
         w |-> [k \in 1..3 |-> (ft.tau[k] - gyro[k]) \div Inertia[k]]]

\* RigidBody6DOF.dynamics:
\*   p_dot = v,  v_dot = [0,0,-g] + (1/m) R F_body,
\*   q_dot = 0.5 q * [0, w],  w_dot = I^-1 (tau_body - w x I w)
Dynamics6DOF(xx, ft, c) ==
    LET R == BodyRotation(xx)
        Iw == [k \in 1..3 |-> Inertia[k] * xx.w[k]]
        gyro == Cross(xx.w, Iw)
    IN  [p |-> xx.v,
         v |-> [k \in 1..3 |->
                  (IF k = 3 THEN 0 - c.gravity ELSE 0)
                    + SumSeq([j \in 1..3 |-> R[k][j] * ft.F[j]]) \div (QUnit * QUnit * c.mass)],
         q |-> SeqDiv(QuatMult(QuatNormalize(xx.q), QuatFromOmega(xx.w)), 2),
         w |-> [k \in 1..3 |-> (ft.tau[k] - gyro[k]) \div Inertia[k]]]

\* DynamicsModel._derivative, with whether the ground pushed in this evaluation.
Derivative6DOF(xx, u, c) ==
    CHOOSE d \in {[k |-> Dynamics6DOF(xx, ft, c), contact |-> ft.contact] :
                     ft \in {ForceTorque6DOF(xx, u, c)}} : TRUE

\* Faulty variant of the integrator: one explicit Euler step.
StepEuler(xx, u, h, c) ==
    LET d1 == Derivative6DOF(xx, u, c)
    IN  [x |-> XAdd(xx, XScale(h, d1.k)),
         k |-> <<d1.k, d1.k, d1.k, d1.k>>,
         contact |-> d1.contact]

\* DynamicsModel.step: the new state, the four stage derivatives and whether
\* the ground pushed in any of them.
Step6DOF(xx, u, h, c) ==
    CHOOSE r \in UNION UNION UNION
        {{{{[x |-> XAdd(xx, XDiv(XScale(h,
                     XAdd(XAdd(d1.k, XScale(2, d2.k)), XAdd(XScale(2, d3.k), d4.k))), 6)),
             k |-> <<d1.k, d2.k, d3.k, d4.k>>,
             contact |-> d1.contact \/ d2.contact \/ d3.contact \/ d4.contact] :
              d4 \in {Derivative6DOF(XAdd(xx, XScale(h, d3.k)), u, c)}} :
              d3 \in {Derivative6DOF(XAdd(xx, XDiv(XScale(h, d2.k), 2)), u, c)}} :
              d2 \in {Derivative6DOF(XAdd(xx, XDiv(XScale(h, d1.k), 2)), u, c)}} :
              d1 \in {Derivative6DOF(xx, u, c)}} : TRUE

(***************************************************************************)
(* Specification of the free body: a DynamicsModel without actuator models *)
(* is reset to some state and stepped with spin speeds, with or without    *)
(* gravity and a ground plane.                                             *)
(***************************************************************************)
FallCfgs ==
    {[gravity |-> g, mass |-> Mass, ground_height |-> gh, ground_k |-> 3,
      ground_d |-> 1, dt |-> DT] : g \in 0..2, gh \in {None, Some(0 - 60)}}

FallStates ==
    {[p |-> pp, v |-> vv, q |-> qq, w |-> ww] :
        pp \in {<<0, 0, 0>>, <<3, 0 - 2, 50>>},
        vv \in {<<0, 0, 0>>, <<1, 0, 0>>},
        qq \in {<<2, 0, 0, 0>>, <<1, 1, 1, 1>>},
        ww \in {<<0, 0, 0>>, <<0, 0, 2>>}}

FallSpins == {<<0, 0>>, <<20, 20>>}

InitFall ==
    /\ cfg \in FallCfgs
    /\ x \in FallStates
    /\ t = 0
    /\ last_u = None
    /\ calls = <<>>
    /\ omegas = <<>>
    /\ angle = <<>>
    /\ rate = <<>>
    /\ op = [name |-> "reset", n |-> 0, x0 |-> x, unpowered |-> TRUE, contact |-> FALSE]
    /\ IdleSetpoints
    /\ IdleAlloc

\* DynamicsModel.step(u) with dt left to the default.
CallStep(u) ==
    /\ op.n < MaxFallSteps
    /\ \E r \in {Step6DOF(x, u, cfg.dt, cfg)} :
          /\ x' = r.x
          /\ calls' = r.k
          /\ op' = [op EXCEPT !.name = "step", !.n = op.n + 1,
                              !.unpowered = op.unpowered /\ u = <<0, 0>>,
                              !.contact = op.contact \/ r.contact]
    /\ t' = t + cfg.dt
    /\ last_u' = Some(ControlInput(List(u), List([i \in 1..NRotors |-> List(<<>>)])))
    /\ UNCHANGED <<omegas, angle, rate, cfg, spVars, alloc>>

NextFall == \E u \in FallSpins : CallStep(u)

SpecFall == InitFall /\ [][NextFall]_vars

(***************************************************************************)
(* Claims about the free body (checked under SpecFall).                    *)
(***************************************************************************)
\* Started at rest and never given rotor thrust.
RestUnpowered ==
    /\ op.name = "step"
    /\ op.unpowered
    /\ op.x0.v = <<0, 0, 0>>
    /\ op.x0.w = <<0, 0, 0>>

\* C19: started at rest with zero rotor thrust, gravity 0 and no ground plane,
\* the vehicle keeps exactly its initial rigid-body state after any number of
\* steps, and every RK4 stage derivative is zero.
C19_RestStateKept ==
    (RestUnpowered /\ cfg.gravity = 0 /\ IsNone(cfg.ground_height)) =>
        /\ x = op.x0
        /\ \A n \in 1..4 : calls[n] = XZero

\* C19 witness: the last of the steps, taken from a displaced, turned state.
C19_Witness ==
    /\ RestUnpowered /\ cfg.gravity = 0 /\ IsNone(cfg.ground_height)
    /\ op.n = MaxFallSteps
    /\ x = [p |-> <<3, 0 - 2, 50>>, v |-> <<0, 0, 0>>, q |-> <<1, 1, 1, 1>>,
            w |-> <<0, 0, 0>>]

\* C20: with zero rotor thrust and gravity g, started at rest at height z0, after
\* n steps of size h and before ground contact the height is
\* z0 - g * (n*h)^2 / 2 and the vertical velocity -g * n * h; horizontal
\* position, attitude and body rate are unchanged.
C20_FreeFallParabola ==
    (RestUnpowered /\ ~op.contact) =>
        /\ t = op.n * cfg.dt
        /\ 2 * x.p[3] = 2 * op.x0.p[3] - cfg.gravity * t * t
        /\ x.v[3] = 0 - cfg.gravity * t
        /\ x.p[1] = op.x0.p[1]
        /\ x.p[2] = op.x0.p[2]
        /\ x.q = op.x0.q
        /\ x.w = op.x0.w

\* C20 witness: two steps of free fall under gravity 1 over a ground plane not
\* yet reached, from height 50 down to 50 - 72.
C20_Witness ==
    /\ RestUnpowered /\ ~op.contact
    /\ cfg.gravity = 1
    /\ ~IsNone(cfg.ground_height)
    /\ op.n = 2
    /\ op.x0.p[3] = 50
    /\ x.p[3] = 50 - 72
    /\ x.v[3] = 0 - 12

(***************************************************************************)
(* rotmat_to_quat (rigid_body.py), for a matrix scaled by unit^2; the      *)
(* quaternion comes back in units of 1 / unit.  s is the code's s in the   *)
(* same units.  branch tells which of the four branches ran.               *)
(***************************************************************************)
RotmatBranch(R) ==
    IF R[1][1] + R[2][2] + R[3][3] > 0 THEN 1
    ELSE IF R[1][1] > R[2][2] /\ R[1][1] > R[3][3] THEN 2
    ELSE IF R[2][2] > R[3][3] THEN 3
    ELSE 4

\* Faulty variant: the third branch takes w from R[2,0] - R[0,2].
RotmatToQuatSwapped(unit, R) ==
    LET one == unit * unit
        b == RotmatBranch(R)
        s == 2 * ISqrt(IF b = 1 THEN one + R[1][1] + R[2][2] + R[3][3]
                       ELSE IF b = 2 THEN one + R[1][1] - R[2][2] - R[3][3]
                       ELSE IF b = 3 THEN one + R[2][2] - R[1][1] - R[3][3]
                       ELSE one + R[3][3] - R[1][1] - R[2][2])
    IN  QuatNormalizeIn(unit,
          IF b = 1 THEN << s \div 4, (R[3][2] - R[2][3]) \div s,
                           (R[1][3] - R[3][1]) \div s, (R[2][1] - R[1][2]) \div s >>
          ELSE IF b = 2 THEN << (R[3][2] - R[2][3]) \div s, s \div 4,
                                (R[1][2] + R[2][1]) \div s, (R[1][3] + R[3][1]) \div s >>
          ELSE IF b = 3 THEN << (R[3][1] - R[1][3]) \div s, (R[1][2] + R[2][1]) \div s,
                                s \div 4, (R[2][3] + R[3][2]) \div s >>
          ELSE << (R[2][1] - R[1][2]) \div s, (R[1][3] + R[3][1]) \div s,
                  (R[2][3] + R[3][2]) \div s, s \div 4 >>)

RotmatToQuat(unit, R) ==
    LET one == unit * unit
        b == RotmatBranch(R)
        s == 2 * ISqrt(IF b = 1 THEN one + R[1][1] + R[2][2] + R[3][3]
                       ELSE IF b = 2 THEN one + R[1][1] - R[2][2] - R[3][3]
                       ELSE IF b = 3 THEN one + R[2][2] - R[1][1] - R[3][3]
                       ELSE one + R[3][3] - R[1][1] - R[2][2])
    IN  QuatNormalizeIn(unit,
          IF b = 1 THEN << s \div 4, (R[3][2] - R[2][3]) \div s,
                           (R[1][3] - R[3][1]) \div s, (R[2][1] - R[1][2]) \div s >>
          ELSE IF b = 2 THEN << (R[3][2] - R[2][3]) \div s, s \div 4,
                                (R[1][2] + R[2][1]) \div s, (R[1][3] + R[3][1]) \div s >>
          ELSE IF b = 3 THEN << (R[1][3] - R[3][1]) \div s, (R[1][2] + R[2][1]) \div s,
                                s \div 4, (R[2][3] + R[3][2]) \div s >>
          ELSE << (R[2][1] - R[1][2]) \div s, (R[1][3] + R[3][1]) \div s,
                  (R[2][3] + R[3][2]) \div s, s \div 4 >>)

(***************************************************************************)
(* Specification of the quaternion round trip: a unit quaternion is turned *)
(* into its rotation matrix and back.                                      *)
(***************************************************************************)
UnitQuats(unit) ==
    {q \in (0 - unit..unit) \X (0 - unit..unit) \X (0 - unit..unit) \X (0 - unit..unit) :
        q[1] * q[1] + q[2] * q[2] + q[3] * q[3] + q[4] * q[4] = unit * unit}

InitQuat ==
    /\ Constructed(LoopCfg)
    /\ \E unit \in 1..MaxQuatUnit : \E q \in UnitQuats(unit) :
          op = [name |-> "init", unit |-> unit, q |-> q, branch |-> 0, out |-> q]
    /\ IdleSetpoints
    /\ IdleAlloc

QuatRoundTrip ==
    /\ op.name = "init"
    /\ \E R \in {QuatToRotmatIn(op.unit, op.q)} :
          op' = [op EXCEPT !.name = "rotmat_to_quat", !.branch = RotmatBranch(R),
                           !.out = RotmatToQuat(op.unit, R)]
    /\ UNCHANGED <<dynVars, cfg, spVars, alloc>>

NextQuat == QuatRoundTrip

SpecQuat == InitQuat /\ [][NextQuat]_vars

\* C22: for every unit quaternion q, whichever of the four branches of
\* rotmat_to_quat its rotation matrix takes, rotmat_to_quat(quat_to_rotmat(q))
\* is q or -q.
C22_RotmatToQuatRoundTrip ==
    op.name = "rotmat_to_quat" =>
        \/ op.out = op.q
        \/ op.out = <<0 - op.q[1], 0 - op.q[2], 0 - op.q[3], 0 - op.q[4]>>

\* C22 witness: a quaternion with four non-zero components whose matrix has
\* negative trace and takes the third branch, coming back negated.
C22_Witness ==
    /\ op.name = "rotmat_to_quat"
    /\ op.branch = 3
    /\ op.q = <<1, 0 - 2, 0 - 4, 0 - 2>>
    /\ op.out = <<0 - 1, 2, 4, 2>>

(***************************************************************************)
(* Rotor poses and the snapshot (plant.py, rotors.py, lib_dynamics.py).    *)
(* Rotors are mounted with identity base orientation and their hinges at   *)
(* angle 0, so R_rotor_body is the identity.                               *)
(***************************************************************************)
\* R @ v for a matrix scaled by QUnit^2.
Rotate(R, v) ==
    [k \in 1..3 |-> SumSeq([j \in 1..3 |-> R[k][j] * v[j]]) \div (QUnit * QUnit)]

\* RotorModel.thrust_and_torque_body for rotor i at spin speed omega.
ThrustBody(omega) == <<0, 0, RotorThrust(omega)>>
TorqueBody(i, omega) ==
    SeqAdd(Cross(RotorPos[i], ThrustBody(omega)),
           <<0, 0, KDragOverKThrust * RotorThrust(omega) * SpinDir[i]>>)

\* The rotor_world_poses list of force_torque: rotor_pose_world for each rotor
\* with its body force and torque.
RotorWorldPoses(xx, u) ==
    CHOOSE poses \in
        {[i \in 1..NRotors |->
            [p_world |-> SeqAdd(xx.p, Rotate(R, RotorPos[i])),
             q_world |-> RotmatToQuat(QUnit, R),
             F_body |-> ThrustBody(u[i]),
             tau_body |-> TorqueBody(i, u[i])]] : R \in {BodyRotation(xx)}} : TRUE

\* DynamicsModel.snapshot from the state, the time and the two caches
\* _last_rotor_world and _last_R_body.
Snapshot(xx, tt, last_rotor_world, last_R_body) ==
    [t |-> tt,
     body |-> [position |-> xx.p, quaternion |-> QuatNormalize(xx.q)],
     rotors |-> [i \in 1..Len(last_rotor_world) |->
        [id |-> i - 1,
         position_world |-> last_rotor_world[i].p_world,
         quaternion_world |-> last_rotor_world[i].q_world,
         thrust_world |-> Rotate(last_R_body, last_rotor_world[i].F_body),
         thrust_body |-> last_rotor_world[i].F_body,
         torque_world |-> Rotate(last_R_body, last_rotor_world[i].tau_body),
         torque_body |-> last_rotor_world[i].tau_body]]]

\* np.eye(3), scaled by QUnit^2.
Eye3 == QuatToRotmat(<<QUnit, 0, 0, 0>>)

\* _derivative at a state: what it returns and what it caches, and the snapshot
\* taken right after it.
Evaluation(xx, u, c) ==
    CHOOSE e \in
        {[x_dot |-> Derivative6DOF(xx, u, c).k,
          force_torque |-> ForceTorque6DOF(xx, u, c),
          rotor_world |-> poses,
          R_body |-> BodyRotation(xx),
          snapshot |-> Snapshot(xx, 0, poses, BodyRotation(xx))] :
            poses \in {RotorWorldPoses(xx, u)}} : TRUE

(***************************************************************************)
(* Specification of the attitude's uses: a model reset to a state has its  *)
(* derivative, force/torque, rotor poses and snapshot evaluated, and so    *)
(* has the same state with its quaternion scaled.                          *)
(***************************************************************************)
PoseCfgs ==
    {[gravity |-> g, mass |-> Mass, ground_height |-> gh, ground_k |-> 3,
      ground_d |-> 1, dt |-> DT] : g \in 0..1, gh \in {None, Some(0)}}

PoseStates ==
    {[p |-> pp, v |-> vv, q |-> qq, w |-> ww] :
        pp \in {<<0, 0, 0>>, <<3, 0 - 2, 0 - 5>>},
        vv \in {<<0, 0, 0>>, <<1, 0, 0 - 2>>},
        qq \in {<<2, 0, 0, 0>>, <<1, 1, 1, 1>>, <<0, 2, 0, 0>>, <<1, 0 - 1, 1, 1>>},
        ww \in {<<0, 0, 0>>, <<0, 0, 2>>, <<2, 0, 0>>}}

ScaleQuat(xx, factor) == [xx EXCEPT !.q = SeqScale(factor, xx.q)]

InitPose ==
    /\ cfg \in PoseCfgs
    /\ x \in PoseStates
    /\ t = 0
    /\ last_u = None
    /\ calls = <<>>
    /\ omegas = <<>>
    /\ angle = <<>>
    /\ rate = <<>>
    /\ op = [name |-> "reset", factor |-> 1, u |-> <<0, 0>>,
             plain |-> Evaluation(x, <<0, 0>>, cfg),
             scaled |-> Evaluation(x, <<0, 0>>, cfg)]
    /\ IdleSetpoints
    /\ IdleAlloc

\* The same evaluation on the state and on the state with q scaled by factor.
Evaluate(u, factor) ==
    /\ op.name = "reset"
    /\ op' = [name |-> "evaluate", factor |-> factor, u |-> u,
              plain |-> Evaluation(x, u, cfg),
              scaled |-> Evaluation(ScaleQuat(x, factor), u, cfg)]
    /\ UNCHANGED <<dynVars, cfg, spVars, alloc>>

NextPose == \E u \in FallSpins, factor \in 2..3 : Evaluate(u, factor)

SpecPose == InitPose /\ [][NextPose]_vars

\* C21: the state derivative, the plant's force/torque and rotor poses, and the
\* snapshot computed from a state are identical to those computed from the same
\* state with its quaternion scaled by a positive factor.
C21_AttitudeScaleInvariant ==
    op.name = "evaluate" => op.plain = op.scaled

\* C21 witness: a turned, spinning body pressed into the ground under thrust,
\* with its quaternion tripled: the attitude enters the derivative, the contact
\* force and the rotor positions.
C21_Witness ==
    /\ op.name = "evaluate"
    /\ op.factor = 3
    /\ x.q = <<1, 0 - 1, 1, 1>>
    /\ x.w = <<2, 0, 0>>
    /\ op.u = <<20, 20>>
    /\ op.plain.force_torque.contact
    /\ op.scaled.x_dot.q # <<0, 0, 0, 0>>
    /\ op.scaled.rotor_world[1].p_world # x.p
    /\ op.scaled.R_body # Eye3

(***************************************************************************)
(* Specification of the telemetry: a DynamicsModel without actuator models *)
(* is constructed, reset and stepped; calls holds the two caches that      *)
(* _derivative writes and snapshot reads (_last_rotor_world, _last_R_body).*)
(***************************************************************************)
\* _default_state: origin, at rest, identity attitude.
DefaultState6DOF ==
    [p |-> <<0, 0, 0>>, v |-> <<0, 0, 0>>, q |-> <<QUnit, 0, 0, 0>>, w |-> <<0, 0, 0>>]

\* What reset leaves in the caches.
ClearedCaches == [rotor_world |-> <<>>, R_body |-> Eye3]

InitSnap ==
    /\ cfg \in PoseCfgs
    /\ x = DefaultState6DOF
    /\ t = 0
    /\ last_u = None
    /\ calls = ClearedCaches
    /\ omegas = <<>>
    /\ angle = <<>>
    /\ rate = <<>>
    /\ op = [name |-> "init", n |-> 0, pre |-> DefaultState6DOF, u |-> <<0, 0>>]
    /\ IdleSetpoints
    /\ IdleAlloc

\* DynamicsModel.reset(state, t)
CallReset6DOF(state, t0) ==
    /\ op.n < MaxOps
    /\ x' = (IF IsNone(state) THEN DefaultState6DOF ELSE Val(state))
    /\ t' = t0
    /\ last_u' = None
    /\ calls' = ClearedCaches
    /\ op' = [name |-> "reset", n |-> op.n + 1, pre |-> x, u |-> <<0, 0>>]
    /\ UNCHANGED <<omegas, angle, rate, cfg, spVars, alloc>>

\* DynamicsModel.step(u): the caches are left by the last of the four
\* _derivative calls, the one at x + h * k3.
CallStep6DOF(u) ==
    /\ op.n < MaxOps
    /\ \E r \in {Step6DOF(x, u, cfg.dt, cfg)} :
       \E x4 \in {XAdd(x, XScale(cfg.dt, r.k[3]))} :
          /\ x' = r.x
          /\ calls' = [rotor_world |-> RotorWorldPoses(x4, u), R_body |-> BodyRotation(x4)]
    /\ t' = t + cfg.dt
    /\ last_u' = Some(ControlInput(List(u), List([i \in 1..NRotors |-> List(<<>>)])))
    /\ op' = [name |-> "step", n |-> op.n + 1, pre |-> x, u |-> u]
    /\ UNCHANGED <<omegas, angle, rate, cfg, spVars, alloc>>

NextSnap ==
    \/ \E st \in {None} \cup {Some(s) : s \in PoseStates}, t0 \in {0, DT} :
          CallReset6DOF(st, t0)
    \/ \E u \in FallSpins : CallStep6DOF(u)

SpecSnap == InitSnap /\ [][NextSnap]_vars

\* snapshot() in the current state.
CurrentSnapshot == Snapshot(x, t, calls.rotor_world, calls.R_body)

\* C26: after every step, each rotor's world position in the snapshot is the
\* snapshot's body position plus the snapshot's body rotation applied to the
\* rotor's mounting position.
C26_SnapshotDescribesPostStepState ==
    op.name = "step" =>
        \A i \in 1..Len(CurrentSnapshot.rotors) :
            CurrentSnapshot.rotors[i].position_world =
                SeqAdd(CurrentSnapshot.body.position,
                       Rotate(QuatToRotmat(CurrentSnapshot.body.quaternion), RotorPos[i]))

\* C27: in every state reachable by construction, reset and step, the snapshot
\* lists one entry per configured rotor, with ids 0..n-1 in rotor order.
C27_SnapshotListsEveryRotor ==
    /\ Len(CurrentSnapshot.rotors) = NRotors
    /\ \A i \in 1..Len(CurrentSnapshot.rotors) : CurrentSnapshot.rotors[i].id = i - 1

(***************************************************************************)
(* Rotor configuration (rotors.py, config_loader.py, lib_geometry.py).     *)
(* A rotor entry of the configuration file is a record of its keys, an     *)
(* absent key being None.  The pose is given either as position and        *)
(* orientation or as a 4x4 transform ("pose_baselink"); the orientation is *)
(* the identity either way.                                                *)
(***************************************************************************)
\* RotorConfig.tilt_axes
TiltAxes(config) ==
    IF ~IsNone(config.tilt_axes_rotor) THEN Val(config.tilt_axes_rotor)
    ELSE IF IsNone(config.tilt_axes_baselink) THEN <<>>
    ELSE Val(config.tilt_axes_baselink)

\* [np.array(ax) for ax in entry] if entry else None
AxesField(entry_axes) ==
    IF IsNone(entry_axes) \/ Val(entry_axes) = <<>> THEN None ELSE entry_axes

\* The RotorConfig both loaders build, apart from the two optional fields.
ConfigOf(entry, rotor_inertia, tilt_thrust_power) ==
    [position_baselink |-> entry.position,
     base_orientation_baselink |-> << <<1, 0, 0>>, <<0, 1, 0>>, <<0, 0, 1>> >>,
     tilt_axes_baselink |-> AxesField(entry.tilt_axes_baselink),
     tilt_axes_rotor |-> AxesField(entry.tilt_axes_rotor),
     spin_dir |-> (IF IsNone(entry.spin_dir) THEN 1 ELSE Val(entry.spin_dir)),
     rotor_inertia |-> rotor_inertia,
     tilt_thrust_power |-> tilt_thrust_power]

\* load_vehicle_config, for one rotor entry: the dataclass defaults stand for
\* rotor_inertia and tilt_thrust_power.
LoadVehicleConfig(entry) ==
    [raised |-> FALSE, config |-> Some(ConfigOf(entry, 0, 0))]

\* rotors_from_config, for one rotor entry: parse_pose reads
\* base_orientation_entry, which is unbound when the pose came as a transform.
RotorsFromConfig(entry) ==
    IF entry.pose = "pose_baselink" THEN [raised |-> TRUE, config |-> None]
    ELSE [raised |-> FALSE,
          config |-> Some(ConfigOf(entry,
                        IF IsNone(entry.rotor_inertia) THEN 0 ELSE Val(entry.rotor_inertia),
                        IF IsNone(entry.tilt_thrust_power) THEN 0
                        ELSE Val(entry.tilt_thrust_power)))]

\* GeometryModel.set_tilt_axes
SetTiltAxes(config, tilt_axes) == [config EXCEPT !.tilt_axes_baselink = Some(tilt_axes)]

\* R @ v
MatVec(R, v) == [k \in 1..3 |-> R[k][1] * v[1] + R[k][2] * v[2] + R[k][3] * v[3]]

\* rotor_axis_body = R @ [0, 0, 1], the hinges at angle 0 (R is the base
\* orientation).
RotorAxisBody(config) == MatVec(config.base_orientation_baselink, <<0, 0, 1>>)

\* tilt_scale = max(0, axis_z) ** tilt_thrust_power, or 1 without an exponent;
\* the axis has whole components, so the power of 0 or 1 is the base itself.
TiltScale(config) ==
    IF config.tilt_thrust_power > 0 THEN Max(0, RotorAxisBody(config)[3]) ELSE 1

\* The gyroscopic term of thrust_and_torque_body.
TauGyro(config, omega, w_body) ==
    IF config.rotor_inertia > 0
    THEN SeqScale(config.rotor_inertia * omega, Cross(w_body, RotorAxisBody(config)))
    ELSE <<0, 0, 0>>

\* RotorModel.thrust_and_torque_body with the hinges at angle 0.
ThrustAndTorqueBodyOf(config, omega, w_body) ==
    LET R == config.base_orientation_baselink
        F_body == MatVec(R, <<0, 0, RotorThrust(omega) * TiltScale(config)>>)
        torque_drag_body ==
            MatVec(R, <<0, 0, KDragOverKThrust * RotorThrust(omega) * config.spin_dir>>)
    IN  [F_body |-> F_body,
         tau_body |-> SeqAdd(SeqAdd(Cross(config.position_baselink, F_body),
                                    torque_drag_body),
                             TauGyro(config, omega, w_body))]

(***************************************************************************)
(* Specification of the configuration: one rotor entry is loaded by        *)
(* build_dynamics and its torque evaluated, loaded by both loaders, or     *)
(* loaded and its hinge axes replaced through GeometryModel.               *)
(***************************************************************************)
AxisLists == {None, Some(<< <<1, 0, 0>> >>), Some(<< <<0, 1, 0>>, <<1, 0, 0>> >>)}

RotorEntries ==
    {[pose |-> ps, position |-> <<1, 0, 0>>, tilt_axes_baselink |-> ab,
      tilt_axes_rotor |-> ar, spin_dir |-> sd, rotor_inertia |-> ri,
      tilt_thrust_power |-> tp] :
        ps \in {"position_baselink", "pose_baselink"}, ab \in AxisLists, ar \in AxisLists,
        sd \in {None, Some(0 - 1)}, ri \in {None, Some(0), Some(3)}, tp \in {None, Some(1)}}

NoConfig == [raised |-> FALSE, config |-> None]

InitConfig ==
    /\ Constructed(LoopCfg)
    /\ \E entry \in RotorEntries :
          op = [name |-> "init", entry |-> entry, built |-> NoConfig, other |-> NoConfig,
                omega |-> 0, w_body |-> <<0, 0, 0>>,
                out |-> [F_body |-> <<0, 0, 0>>, tau_body |-> <<0, 0, 0>>],
                tilt_axes |-> <<>>]
    /\ IdleSetpoints
    /\ IdleAlloc

\* build_dynamics on the entry, then the rotor's thrust_and_torque_body as
\* force_torque calls it.
BuildAndEvaluate(omega, w_body) ==
    /\ op.name = "init"
    /\ \E b \in {LoadVehicleConfig(op.entry)} :
          op' = [op EXCEPT !.name = "force_torque", !.built = b, !.omega = omega,
                           !.w_body = w_body,
                           !.out = ThrustAndTorqueBodyOf(Val(b.config), omega, w_body)]
    /\ UNCHANGED <<dynVars, cfg, spVars, alloc>>

\* rotors_from_config and load_vehicle_config on the same entry.
LoadBoth ==
    /\ op.name = "init"
    /\ op' = [op EXCEPT !.name = "load", !.built = RotorsFromConfig(op.entry),
                        !.other = LoadVehicleConfig(op.entry)]
    /\ UNCHANGED <<dynVars, cfg, spVars, alloc>>

\* GeometryModel(rotors).set_tilt_axes(idx, tilt_axes) on the loaded rotor.
CallSetTiltAxes(tilt_axes) ==
    /\ op.name = "init"
    /\ \E b \in {LoadVehicleConfig(op.entry)} :
          op' = [op EXCEPT !.name = "set_tilt_axes", !.tilt_axes = tilt_axes,
                           !.built = [b EXCEPT !.config =
                                        Some(SetTiltAxes(Val(b.config), tilt_axes))]]
    /\ UNCHANGED <<dynVars, cfg, spVars, alloc>>

NextConfig ==
    \/ \E omega \in {0, 20}, w_body \in {<<0, 0, 0>>, <<2, 0, 0>>} :
          BuildAndEvaluate(omega, w_body)
    \/ LoadBoth
    \/ \E axes \in {<< <<0, 0, 1>> >>, << <<0, 1, 0>>, <<0, 0, 1>> >>} :
          CallSetTiltAxes(axes)

SpecConfig == InitConfig /\ [][NextConfig]_vars

\* The value an optional key of the entry asks for.
Given(field) == IF IsNone(field) THEN 0 ELSE Val(field)

\* C23: the optional rotor inertia and tilt-thrust exponent of the entry are
\* carried into the rotor build_dynamics simulates, and a rotor configured with
\* positive inertia contributes the gyroscopic torque rotor_inertia * omega *
\* (w_body x axis) when the body rate is non-zero.
C23_OptionalRotorFieldsCarried ==
    op.name = "force_torque" =>
        /\ Val(op.built.config).rotor_inertia = Given(op.entry.rotor_inertia)
        /\ Val(op.built.config).tilt_thrust_power = Given(op.entry.tilt_thrust_power)
        /\ (Given(op.entry.rotor_inertia) > 0 /\ op.w_body # <<0, 0, 0>>) =>
              op.out.tau_body =
                 SeqAdd(SeqAdd(Cross(op.entry.position, ThrustBody(op.omega)),
                               <<0, 0, KDragOverKThrust * RotorThrust(op.omega)
                                         * Val(op.built.config).spin_dir>>),
                        SeqScale(Given(op.entry.rotor_inertia) * op.omega,
                                 Cross(op.w_body, <<0, 0, 1>>)))

\* C29: after set_tilt_axes(idx, axes) the effective hinge axes of the rotor,
\* those tilt_axes() returns, are the given axes, whichever representation the
\* rotor was configured with.
C29_SetTiltAxesTakesEffect ==
    op.name = "set_tilt_axes" => TiltAxes(Val(op.built.config)) = op.tilt_axes

\* C30: for every valid rotor entry both loaders succeed and produce rotor
\* configurations with identical fields.
C30_LoadersAgree ==
    op.name = "load" =>
        /\ ~op.built.raised
        /\ ~op.other.raised
        /\ op.built.config = op.other.config

(***************************************************************************)
(* desired_rotation_from_force (demo_closedloop_geometric.py).  Directions *)
(* are integer vectors in units of 1 / DirUnit; the yaw target is a number *)
(* of quarter turns, so that cos and sin are exact.                        *)
(***************************************************************************)
DirUnit == 5

Dot(a, b) == a[1] * b[1] + a[2] * b[2] + a[3] * b[3]

\* np.linalg.norm
Norm(v) == ISqrt(Dot(v, v))

\* _normalize: v / (norm + 1e-9), the result in units of 1 / DirUnit; a zero
\* vector stays zero.
Normalize(v) ==
    IF Norm(v) = 0 THEN <<0, 0, 0>>
    ELSE CHOOSE b \in {[k \in 1..3 |-> (v[k] * DirUnit) \div n] : n \in {Norm(v)}} : TRUE

\* [cos(yaw_des), sin(yaw_des), 0] for yaw_des = quarter * pi/2.
Heading(quarter) ==
    << <<DirUnit, 0, 0>>, <<0, DirUnit, 0>>, <<0 - DirUnit, 0, 0>>,
       <<0, 0 - DirUnit, 0>> >>[(quarter % 4) + 1]

\* desired_rotation_from_force: the columns b1, b2, b3 of R_des and whether the
\* world +Y fallback was taken.
DesiredRotationFromForce(F_world, quarter) ==
    CHOOSE r \in
        {[b1 |-> SeqDiv(Cross(b2, b3), DirUnit), b2 |-> b2, b3 |-> b3,
          fallback |-> Norm(Cross(b3, Heading(quarter))) = 0] :
            b3 \in {Normalize(F_world)},
            b2 \in {IF Norm(Cross(Normalize(F_world), Heading(quarter))) = 0
                    THEN <<0, DirUnit, 0>>
                    ELSE Normalize(Cross(Normalize(F_world), Heading(quarter)))}} : TRUE

(***************************************************************************)
(* Specification of the desired attitude: desired_rotation_from_force is   *)
(* applied to a non-zero force and a yaw target.  The forces are those     *)
(* whose direction and whose cross product with the heading have rational  *)
(* length, so that every normalisation is exact.                           *)
(***************************************************************************)
ForceShapes ==
    {v \in (0 - 5..5) \X (0 - 5..5) \X (0 - 5..5) :
        /\ Dot(v, v) = 25
        /\ \E k \in 1..3 : v[k] = 0
        /\ \A k \in 1..3 : v[k] \in {0 - 5, 0 - 4, 0 - 3, 0, 3, 4, 5}}

InitRdes ==
    /\ Constructed(LoopCfg)
    /\ \E shape \in ForceShapes, scale \in 1..2, quarter \in 0..3 :
          op = [name |-> "init", F_world |-> SeqScale(scale, shape), quarter |-> quarter,
                R_des |-> [b1 |-> <<0, 0, 0>>, b2 |-> <<0, 0, 0>>, b3 |-> <<0, 0, 0>>,
                           fallback |-> FALSE]]
    /\ IdleSetpoints
    /\ IdleAlloc

CallDesiredRotation ==
    /\ op.name = "init"
    /\ op' = [op EXCEPT !.name = "desired_rotation_from_force",
                        !.R_des = DesiredRotationFromForce(op.F_world, op.quarter)]
    /\ UNCHANGED <<dynVars, cfg, spVars, alloc>>

NextRdes == CallDesiredRotation

SpecRdes == InitRdes /\ [][NextRdes]_vars

\* C24: for every non-zero desired force and every yaw target, the degenerate
\* case that takes the +Y fallback included, the three columns of the returned
\* matrix are mutually orthogonal unit vectors and the third is along the force.
C24_DesiredRotationOrthonormal ==
    op.name = "desired_rotation_from_force" =>
        LET R == op.R_des
        IN  /\ Dot(R.b1, R.b1) = DirUnit * DirUnit
            /\ Dot(R.b2, R.b2) = DirUnit * DirUnit
            /\ Dot(R.b3, R.b3) = DirUnit * DirUnit
            /\ Dot(R.b1, R.b2) = 0
            /\ Dot(R.b1, R.b3) = 0
            /\ Dot(R.b2, R.b3) = 0
            /\ SeqScale(Norm(op.F_world), R.b3) = SeqScale(DirUnit, op.F_world)

(***************************************************************************)
(* The allocator's column for a rotor against the rotor model: both turn   *)
(* the rotor frame by rotation_body_from_servos, here the base orientation.*)
(***************************************************************************)
\* Faulty variant of the column: the arm torque without the yaw term.
TauColArmOnly(config, a) ==
    [dir_body |-> RotorAxisBody(config),
     tau_col |-> Cross(config.position_baselink, RotorAxisBody(config))]

\* TiltAllocator._thrust_direction_and_tau_col, for k_thrust > 1e-9.
ThrustDirectionAndTauCol(config, a) ==
    LET dir_body == RotorAxisBody(config)
        yaw_gain == KDragOverKThrust * config.spin_dir * a.yaw_drag_scale
    IN  [dir_body |-> dir_body,
         tau_col |-> SeqAdd(Cross(config.position_baselink, dir_body),
                            SeqScale(yaw_gain, dir_body))]

\* Rotors mounted upright, on their side about X and on their side about Y.
MountedRotors ==
    {[position_baselink |-> pos, base_orientation_baselink |-> R0,
      tilt_axes_baselink |-> None, tilt_axes_rotor |-> None, spin_dir |-> sd,
      rotor_inertia |-> ri, tilt_thrust_power |-> tp] :
        pos \in {<<1, 0, 0>>, <<0, 2, 1>>},
        R0 \in {<< <<1, 0, 0>>, <<0, 1, 0>>, <<0, 0, 1>> >>,
                << <<1, 0, 0>>, <<0, 0, 0 - 1>>, <<0, 1, 0>> >>,
                << <<0, 0, 1>>, <<0, 1, 0>>, <<0 - 1, 0, 0>> >>},
        sd \in {0 - 1, 1}, ri \in {0, 3}, tp \in {0, 1}}

InitColumn ==
    /\ Constructed(LoopCfg)
    /\ \E config \in MountedRotors, ys \in 1..2 :
          op = [name |-> "init", config |-> config, a |-> [yaw_drag_scale |-> ys],
                f |-> 0, w_body |-> <<0, 0, 0>>,
                col |-> [dir_body |-> <<0, 0, 0>>, tau_col |-> <<0, 0, 0>>],
                out |-> [F_body |-> <<0, 0, 0>>, tau_body |-> <<0, 0, 0>>]]
    /\ IdleSetpoints
    /\ IdleAlloc

\* The column allocate builds for the rotor, and what the rotor model produces
\* at the spin speed allocate returns for the thrust f.
ColumnAndRotor(f, w_body) ==
    /\ op.name = "init"
    /\ op' = [op EXCEPT !.name = "compare", !.f = f, !.w_body = w_body,
                        !.col = ThrustDirectionAndTauCol(op.config, op.a),
                        !.out = ThrustAndTorqueBodyOf(op.config, ThrustToOmega(f), w_body)]
    /\ UNCHANGED <<dynVars, cfg, spVars, alloc>>

NextColumn == \E f \in {0, 4, 25}, w_body \in {<<0, 0, 0>>, <<2, 0, 0>>} : ColumnAndRotor(f, w_body)

SpecColumn == InitColumn /\ [][NextColumn]_vars

\* C28: for a rotor without tilt falloff and gyroscopic term and with
\* yaw_drag_scale = 1, the allocation-matrix column times a thrust f >= 0 is the
\* body force and torque the rotor model produces at spin speed sqrt(f/k_thrust).
C28_ColumnAgreesWithRotorModel ==
    (/\ op.name = "compare"
     /\ op.a.yaw_drag_scale = 1
     /\ op.config.tilt_thrust_power = 0
     /\ op.config.rotor_inertia = 0) =>
        /\ SeqScale(op.f, op.col.dir_body) = op.out.F_body
        /\ SeqScale(op.f, op.col.tau_col) = op.out.tau_body

\* C28 witness: a rotor mounted on its side off the axes, spinning clockwise,
\* asked for thrust 25 while the body turns.
C28_Witness ==
    /\ op.name = "compare"
    /\ op.a.yaw_drag_scale = 1
    /\ op.config.tilt_thrust_power = 0
    /\ op.config.rotor_inertia = 0
    /\ op.config.position_baselink = <<0, 2, 1>>
    /\ op.config.spin_dir = 0 - 1
    /\ op.f = 25
    /\ op.w_body = <<2, 0, 0>>
    /\ op.out.F_body = <<0, 0 - 25, 0>>
    /\ op.out.tau_body # <<0, 0, 0>>

====
